---- MODULE Spec2Model ----
(***************************************************************************)
(* Graph model and transformation engine of the TEN framework:             *)
(*   - the graph mutator, graph_add_connection (ten_manager)               *)
(*   - the reverse-connection normalizer (ten_rust, graph/reverse.rs)      *)
(*   - the subgraph flattener (ten_rust, graph/subgraph.rs)                *)
(*                                                                         *)
(* Encoding conventions                                                    *)
(*   Option<T>   : None is the empty tuple, Some(x) the one-element tuple  *)
(*   Vec<T>      : a sequence                                              *)
(*   Result<T>   : a record with a field "result" ("ok" / "err")           *)
(*   String      : a TLA+ string in the mutator and the normalizer, which  *)
(*                 only compare names; a sequence of tokens in the         *)
(*                 flattener, which splits names at ":" and joins with "_" *)
(***************************************************************************)
EXTENDS Integers, Sequences, FiniteSets, TLC

VARIABLES
    graph,          \* mutator: the graph passed as &mut to graph_add_connection
    pkgs_cache,     \* mutator: the package cache used by schema validation
    last,           \* mutator: arguments and outcome of the latest call
    calls,          \* mutator: number of calls made so far
    rv_graph,       \* normalizer: the input graph
    rv_result,      \* normalizer: the value returned for rv_graph
    fl_graph,       \* flattener: the outer graph (self)
    fl_loader,      \* flattener: the graph the loader returns for each source_uri
    fl_result,      \* flattener: the value returned by flatten
    fl_calls,       \* flattener: the source_uris the loader was called with
    fl_again,       \* flattener: the value returned by flatten for the flattened graph
    rf_graph,       \* reference check: the graph (self)
    rf_result,      \* reference check: the value returned by check_subgraph_references_exist
    nv_node,        \* node validation: the node (&mut self)
    nv_state,       \* node validation: the app_uri_declaration_state argument
    nv_result,      \* node validation: the value returned by GraphNode::validate_and_complete
    up_import_uri,  \* URI resolver: the import_uri argument
    up_base_dir,    \* URI resolver: the base_dir argument
    up_result,      \* URI resolver: the value returned by get_real_path_from_import_uri
    gi_info,        \* graph info: the GraphInfo (&mut self)
    gi_env,         \* graph info: what reading the document and validating the graph give
    gi_call,        \* graph info: the outcome of the call, with what it loaded and validated
    if_api,         \* interfaces: the ManifestApi flatten is called on (self)
    if_docs,        \* interfaces: the interface document at each location, if any
    if_pc,          \* interfaces: where the call of flatten is (start, run, done)
    if_stack,       \* interfaces: the active calls of flatten_internal, innermost last
    if_set,         \* interfaces: interface_set
    if_loads,       \* interfaces: the locations read so far
    if_flattened,   \* interfaces: flattened_apis
    if_result,      \* interfaces: the value returned by flatten
    fw_fs,          \* file watcher: the files created at the path and which one is there
    fw_task,        \* file watcher: the locals and position of watch_file_task
    fw_chan,        \* file watcher: the content channel
    fw_stream,      \* file watcher: the FileContentStream held by the caller
    mt_handle,      \* metrics: the MetricHandle pointer the caller holds
    mt_gauge,       \* metrics: the sum the meter keeps per attribute set
    mt_last,        \* metrics: the latest call
    mt_calls        \* metrics: number of gauge calls made so far

addVars == <<graph, pkgs_cache, last, calls>>
revVars == <<rv_graph, rv_result>>
flatVars == <<fl_graph, fl_loader, fl_result, fl_calls, fl_again>>
refsVars == <<rf_graph, rf_result>>
nodeVars == <<nv_node, nv_state, nv_result>>
pathVars == <<up_import_uri, up_base_dir, up_result>>
infoVars == <<gi_info, gi_env, gi_call>>
ifaceVars == <<if_api, if_docs, if_pc, if_stack, if_set, if_loads, if_flattened, if_result>>
watchVars == <<fw_fs, fw_task, fw_chan, fw_stream>>
metricVars == <<mt_handle, mt_gauge, mt_last, mt_calls>>

vars == <<addVars, revVars, flatVars, refsVars, nodeVars, pathVars, infoVars, ifaceVars, watchVars, metricVars>>

\* the variables each subsystem leaves alone
addOthers == <<revVars, flatVars, refsVars, nodeVars, pathVars, infoVars, ifaceVars, watchVars, metricVars>>
revOthers == <<addVars, flatVars, refsVars, nodeVars, pathVars, infoVars, ifaceVars, watchVars, metricVars>>
flatOthers == <<addVars, revVars, refsVars, nodeVars, pathVars, infoVars, ifaceVars, watchVars, metricVars>>
refsOthers == <<addVars, revVars, flatVars, nodeVars, pathVars, infoVars, ifaceVars, watchVars, metricVars>>
nodeOthers == <<addVars, revVars, flatVars, refsVars, pathVars, infoVars, ifaceVars, watchVars, metricVars>>
pathOthers == <<addVars, revVars, flatVars, refsVars, nodeVars, infoVars, ifaceVars, watchVars, metricVars>>
infoOthers == <<addVars, revVars, flatVars, refsVars, nodeVars, pathVars, ifaceVars, watchVars, metricVars>>
ifaceOthers == <<addVars, revVars, flatVars, refsVars, nodeVars, pathVars, infoVars, watchVars, metricVars>>
watchOthers == <<addVars, revVars, flatVars, refsVars, nodeVars, pathVars, infoVars, ifaceVars, metricVars>>
metricOthers == <<addVars, revVars, flatVars, refsVars, nodeVars, pathVars, infoVars, ifaceVars, watchVars>>

----------------------------------------------------------------------------
(* Option and sequence helpers *)

None == <<>>

Some(x) == <<x>>

IsSome(o) == o # <<>>

Unwrap(o) == o[1]

Range(s) == {s[i] : i \in 1..Len(s)}

\* Vec::iter().position / find over the set of indices whose element
\* satisfies the predicate: the first such index, 0 if none
FirstIndex(matching) ==
    IF matching = {} THEN 0
    ELSE CHOOSE i \in matching : \A j \in matching : i <= j

MsgTypes == {"cmd", "data", "audio_frame", "video_frame"}

\* the order in which the code visits the four collections of a connection
MsgTypeOrder == <<"cmd", "data", "audio_frame", "video_frame">>

\* the flow collection of a connection selected by message type
FlowsOf(conn, msg_type) ==
    CASE msg_type = "cmd" -> conn.cmd
      [] msg_type = "data" -> conn.data
      [] msg_type = "audio_frame" -> conn.audio_frame
      [] OTHER -> conn.video_frame

----------------------------------------------------------------------------
(* Graph mutator: ten_manager/src/graph/connections/add.rs                  *)

\* GraphLoc as the mutator sees it: app, extension, subgraph, selector
Loc4(app, ext, sub, sel) ==
    [app |-> app, extension |-> ext, subgraph |-> sub, selector |-> sel]

ExtLoc(n) == Loc4(None, Some(n), None, None)

SubLoc(n) == Loc4(None, None, Some(n), None)

SelLoc(n) == Loc4(None, None, None, Some(n))

\* GraphLoc::get_node_type: exactly one of extension / subgraph / selector
get_node_type(loc) ==
    CASE IsSome(loc.extension) /\ loc.subgraph = None /\ loc.selector = None
            -> "extension"
      [] loc.extension = None /\ IsSome(loc.subgraph) /\ loc.selector = None
            -> "subgraph"
      [] loc.extension = None /\ loc.subgraph = None /\ IsSome(loc.selector)
            -> "selector"
      [] OTHER -> "err"

\* GraphLoc::get_node_name: the name held by the field that is set
get_node_name(loc) ==
    CASE get_node_type(loc) = "extension" -> Unwrap(loc.extension)
      [] get_node_type(loc) = "subgraph" -> Unwrap(loc.subgraph)
      [] get_node_type(loc) = "selector" -> Unwrap(loc.selector)
      [] OTHER -> "err"

node_matches(loc, node_type, node_name, node_app) ==
    CASE node_type = "extension" ->
            (IsSome(loc.extension) /\ Unwrap(loc.extension) = node_name)
            /\ loc.app = node_app
      [] node_type = "subgraph" ->
            IsSome(loc.subgraph) /\ Unwrap(loc.subgraph) = node_name
      [] node_type = "selector" ->
            IsSome(loc.selector) /\ Unwrap(loc.selector) = node_name
      [] OTHER -> FALSE

\* GraphLoc::check_node_exists: a node of the location's type and name is declared
check_node_exists(loc, g) ==
    IF \E i \in 1..Len(g.nodes) :
          /\ g.nodes[i].type = get_node_type(loc)
          /\ g.nodes[i].name = get_node_name(loc)
          /\ (g.nodes[i].type = "extension" => g.nodes[i].app = loc.app)
    THEN "ok" ELSE "err"

\* GraphLoc::matches: the connection's origin equals the requested source
loc_matches(a, b) == a = b

check_connection_exists(g, src_node_type, src_node_name, src_node_app, msg_type, msg_name, dest_node_type, dest_node_name, dest_node_app) ==
    IF /\ IsSome(g.connections)
       /\ \E c \in 1..Len(Unwrap(g.connections)) :
            LET conn == Unwrap(g.connections)[c]
                msg_flows == FlowsOf(conn, msg_type)
            IN /\ node_matches(conn.loc, src_node_type, src_node_name,
                               src_node_app)
               /\ IsSome(msg_flows)
               /\ \E f \in 1..Len(Unwrap(msg_flows)) :
                    LET flow == Unwrap(msg_flows)[f]
                    IN \E n \in 1..Len(msg_name) :
                         /\ flow.name = Some(msg_name[n])
                         /\ \E d \in 1..Len(flow.dest) :
                              node_matches(flow.dest[d].loc, dest_node_type,
                                           dest_node_name, dest_node_app)
    THEN "err" ELSE "ok"

\* validate_connection_schema (validate.rs): the package cache lists the
\* messages (type, name) whose source and destination schemas differ; a
\* conversion bridges them
validate_connection_schema(cache, msg_type, msg_name0, msg_conversion) ==
    IF <<msg_type, msg_name0>> \in cache /\ msg_conversion = None
    THEN "err" ELSE "ok"

add_to_flow(flow_collection, message_flow) ==
    LET flows == IF flow_collection = None THEN <<>>
                 ELSE Unwrap(flow_collection)
        idx == FirstIndex({ k \in 1..Len(flows) :
                              flows[k].name = message_flow.name })
        d == message_flow.dest[1]
    IN IF idx # 0
       THEN IF ~\E k \in 1..Len(flows[idx].dest) :
                   /\ flows[idx].dest[k].loc.extension = d.loc.extension
                   /\ flows[idx].dest[k].loc.app = d.loc.app
            THEN Some([flows EXCEPT ![idx].dest = Append(@, d)])
            ELSE Some(flows)
       ELSE Some(Append(flows, message_flow))

add_message_flow_to_connection(connection, msg_type, message_flow) ==
    CASE msg_type = "cmd" ->
            [connection EXCEPT !.cmd = add_to_flow(@, message_flow)]
      [] msg_type = "data" ->
            [connection EXCEPT !.data = add_to_flow(@, message_flow)]
      [] msg_type = "audio_frame" ->
            [connection EXCEPT !.audio_frame = add_to_flow(@, message_flow)]
      [] OTHER ->
            [connection EXCEPT !.video_frame = add_to_flow(@, message_flow)]

\* all locations used by the connections of a graph
ConnLocs(g) ==
    IF g.connections = None THEN {}
    ELSE UNION { {conn.loc} \cup
                 UNION { UNION { {flow.dest[d].loc : d \in 1..Len(flow.dest)}
                                 \cup {flow.source[k].loc :
                                          k \in 1..Len(flow.source)}
                                 : flow \in Range(Unwrap(FlowsOf(conn, t))) }
                         : t \in {u \in MsgTypes : IsSome(FlowsOf(conn, u))} }
                 : conn \in Range(Unwrap(g.connections)) }

\* Graph::validate_and_complete: app declaration mode, localhost ban,
\* every location names a declared node, flow names unique per collection,
\* destinations unique per flow
validate_and_complete(g) ==
    LET exts == {n \in Range(g.nodes) : n.type = "extension"}
        mode_ok == (\A n \in exts : IsSome(n.app)) \/ (\A n \in exts : n.app = None)
        localhost_ok == /\ \A n \in Range(g.nodes) : n.app # Some("localhost")
                        /\ \A l \in ConnLocs(g) : l.app # Some("localhost")
        nodes_ok == \A l \in ConnLocs(g) :
                        get_node_type(l) # "err" /\ check_node_exists(l, g) = "ok"
        colls == IF g.connections = None THEN {}
                 ELSE { Unwrap(FlowsOf(conn, t)) :
                          <<conn, t>> \in
                            { ct \in Range(Unwrap(g.connections)) \X MsgTypes :
                                IsSome(FlowsOf(ct[1], ct[2])) } }
        unique_ok == \A fl \in colls :
                        /\ \A i, j \in 1..Len(fl) :
                              (i # j /\ IsSome(fl[i].name)) => fl[i].name # fl[j].name
                        /\ \A i \in 1..Len(fl) : \A d, e \in 1..Len(fl[i].dest) :
                              d # e => fl[i].dest[d].loc # fl[i].dest[e].loc
    IN IF mode_ok /\ localhost_ok /\ nodes_ok /\ unique_ok THEN "ok" ELSE "err"

\* graph_add_connection that never looks for a connection of the source and
\* pushes a new one for every call
graph_add_connection_always_new(g, cache, src, dest, msg_type, msg_name, msg_conversion) ==
    LET src_node_type == get_node_type(src)
        dest_node_type == get_node_type(dest)
        destination == [loc |-> dest, msg_conversion |-> msg_conversion]
        \* line 203: initialize connections if None
        g1 == IF g.connections = None
              THEN [g EXCEPT !.connections = Some(<<>>)] ELSE g
        message_flow ==
            IF Len(msg_name) = 1
            THEN [name |-> Some(msg_name[1]), names |-> None,
                  dest |-> <<destination>>, source |-> <<>>]
            ELSE [name |-> None, names |-> Some(msg_name),
                  dest |-> <<destination>>, source |-> <<>>]
        conns == Unwrap(g1.connections)
        found == 0
        conns1 == IF found # 0 THEN conns
                  ELSE Append(conns, [loc |-> src, cmd |-> None, data |-> None,
                                      audio_frame |-> None, video_frame |-> None])
        connection_idx == IF found # 0 THEN found ELSE Len(conns1)
        conns2 == [conns1 EXCEPT ![connection_idx] =
                      add_message_flow_to_connection(@, msg_type, message_flow)]
        g2 == [g1 EXCEPT !.connections = Some(conns2)]
    IN CASE src_node_type = "err" \/ dest_node_type = "err" ->
                [result |-> "err", graph |-> g]
         [] check_node_exists(src, g) = "err" \/ check_node_exists(dest, g) = "err" ->
                [result |-> "err", graph |-> g]
         [] check_connection_exists(g, src_node_type, get_node_name(src), src.app,
                                    msg_type, msg_name, dest_node_type,
                                    get_node_name(dest), dest.app) = "err" ->
                [result |-> "err", graph |-> g]
         [] src_node_type = "extension" /\ dest_node_type = "extension"
            /\ msg_name = <<>> ->
                [result |-> "panic", graph |-> g]
         [] src_node_type = "extension" /\ dest_node_type = "extension"
            /\ validate_connection_schema(cache, msg_type, msg_name[1],
                                       msg_conversion) = "err" ->
                [result |-> "err", graph |-> g]
         [] msg_name = <<>> ->
                [result |-> "err", graph |-> g1]
         [] validate_and_complete(g2) = "ok" ->
                [result |-> "ok", graph |-> g2]
         [] OTHER ->
                \* restore the original graph
                [result |-> "err", graph |-> g]

\* graph_add_connection: the outcome and the graph the caller is left with.
\* A panic (the index msg_name[0] on an empty list) unwinds before any write.
graph_add_connection(g, cache, src, dest, msg_type, msg_name, msg_conversion) ==
    LET src_node_type == get_node_type(src)
        dest_node_type == get_node_type(dest)
        destination == [loc |-> dest, msg_conversion |-> msg_conversion]
        \* line 203: initialize connections if None
        g1 == IF g.connections = None
              THEN [g EXCEPT !.connections = Some(<<>>)] ELSE g
        message_flow ==
            IF Len(msg_name) = 1
            THEN [name |-> Some(msg_name[1]), names |-> None,
                  dest |-> <<destination>>, source |-> <<>>]
            ELSE [name |-> None, names |-> Some(msg_name),
                  dest |-> <<destination>>, source |-> <<>>]
        conns == Unwrap(g1.connections)
        found == FirstIndex({ k \in 1..Len(conns) :
                               loc_matches(conns[k].loc, src) })
        conns1 == IF found # 0 THEN conns
                  ELSE Append(conns, [loc |-> src, cmd |-> None, data |-> None,
                                      audio_frame |-> None, video_frame |-> None])
        connection_idx == IF found # 0 THEN found ELSE Len(conns1)
        conns2 == [conns1 EXCEPT ![connection_idx] =
                      add_message_flow_to_connection(@, msg_type, message_flow)]
        g2 == [g1 EXCEPT !.connections = Some(conns2)]
    IN CASE src_node_type = "err" \/ dest_node_type = "err" ->
                [result |-> "err", graph |-> g]
         [] check_node_exists(src, g) = "err" \/ check_node_exists(dest, g) = "err" ->
                [result |-> "err", graph |-> g]
         [] check_connection_exists(g, src_node_type, get_node_name(src), src.app,
                                    msg_type, msg_name, dest_node_type,
                                    get_node_name(dest), dest.app) = "err" ->
                [result |-> "err", graph |-> g]
         [] src_node_type = "extension" /\ dest_node_type = "extension"
            /\ msg_name = <<>> ->
                [result |-> "panic", graph |-> g]
         [] src_node_type = "extension" /\ dest_node_type = "extension"
            /\ validate_connection_schema(cache, msg_type, msg_name[1],
                                       msg_conversion) = "err" ->
                [result |-> "err", graph |-> g]
         [] msg_name = <<>> ->
                [result |-> "err", graph |-> g1]
         [] validate_and_complete(g2) = "ok" ->
                [result |-> "ok", graph |-> g2]
         [] OTHER ->
                \* restore the original graph
                [result |-> "err", graph |-> g]

(* Bounds and inputs of the mutator *)

MaxCalls == 2

AddNodes ==
    << [type |-> "extension", name |-> "a", app |-> None],
       [type |-> "extension", name |-> "b", app |-> None],
       [type |-> "subgraph", name |-> "s1", app |-> None],
       [type |-> "subgraph", name |-> "s2", app |-> None],
       [type |-> "selector", name |-> "sel", app |-> None] >>

\* a graph without connections
AddGraphEmpty ==
    [nodes |-> AddNodes, connections |-> None,
     exposed_messages |-> None, exposed_properties |-> None]

\* a graph read from a file that was never validated: its only connection
\* names an extension that is not declared
AddGraphUnvalidated ==
    [nodes |-> AddNodes,
     connections |-> Some(<< [loc |-> ExtLoc("b"),
                              cmd |-> Some(<< [name |-> Some("X"), names |-> None,
                                               dest |-> << [loc |-> ExtLoc("zz"),
                                                            msg_conversion |-> None] >>,
                                               source |-> <<>>] >>),
                              data |-> None, audio_frame |-> None,
                              video_frame |-> None] >>),
     exposed_messages |-> None, exposed_properties |-> None]

AddInitGraphs == {AddGraphEmpty, AddGraphUnvalidated}

SrcLocs == {ExtLoc("a"), SubLoc("s1"), ExtLoc("ghost")}

DestLocs == {ExtLoc("b"), SubLoc("s1"), SelLoc("sel"),
             Loc4(None, None, None, None)}

AddMsgTypes == {"cmd", "data"}

MsgNameLists == {<<>>, <<"X">>, <<"X", "Y">>}

Conversions == {None, Some("conv")}

PkgsCaches == {{<<"data", "X">>}}

NoCall == [result |-> "none"]

AddInit ==
    /\ graph \in AddInitGraphs
    /\ pkgs_cache \in PkgsCaches
    /\ last = NoCall
    /\ calls = 0

AddIdle ==
    /\ graph = AddGraphEmpty
    /\ pkgs_cache = {<<"data", "X">>}
    /\ last = NoCall
    /\ calls = 0

\* one call of graph_add_connection by the designer
AddConnection ==
    /\ calls < MaxCalls
    /\ last.result # "panic"
    /\ \E src \in SrcLocs, dest \in DestLocs, msg_type \in AddMsgTypes,
          msg_name \in MsgNameLists, conv \in Conversions :
          LET r == graph_add_connection(graph, pkgs_cache, src, dest, msg_type,
                                        msg_name, conv)
          IN /\ graph' = r.graph
             /\ last' = [result |-> r.result, src |-> src, dest |-> dest,
                         msg_type |-> msg_type, msg_name |-> msg_name,
                         msg_conversion |-> conv, before |-> graph]
    /\ calls' = calls + 1
    /\ UNCHANGED pkgs_cache
    /\ UNCHANGED addOthers

----------------------------------------------------------------------------
(* Reverse-connection normalizer: ten_rust/src/graph/reverse.rs             *)

\* GraphLoc as the normalizer sees it: app, extension, subgraph
Loc3(app, ext, sub) == [app |-> app, extension |-> ext, subgraph |-> sub]

\* GraphConnection::new(app, extension, subgraph): no flows yet
GraphConnection_new(app, ext, sub) ==
    [loc |-> Loc3(app, ext, sub), cmd |-> None, data |-> None,
     audio_frame |-> None, video_frame |-> None]

\* the assignment `match flow_type { "cmd" => conn.cmd = v, ... }`
SetFlows(conn, flow_type, v) ==
    CASE flow_type = "cmd" -> [conn EXCEPT !.cmd = v]
      [] flow_type = "data" -> [conn EXCEPT !.data = v]
      [] flow_type = "audio_frame" -> [conn EXCEPT !.audio_frame = v]
      [] OTHER -> [conn EXCEPT !.video_frame = v]

\* forward_conn with the flow's own destinations copied instead of the
\* origin of the connection that declared the source
forward_conn_copies_dest(src, flow, flow_type, conn_loc) ==
    SetFlows(GraphConnection_new(src.loc.app, src.loc.extension,
                                 src.loc.subgraph),
             flow_type,
             Some(<< [name |-> flow.name, dest |-> flow.dest,
                      source |-> <<>>] >>))

\* the forward connection emitted for one source of a reversed flow
forward_conn(src, flow, flow_type, conn_loc) ==
    SetFlows(GraphConnection_new(src.loc.app, src.loc.extension,
                                 src.loc.subgraph),
             flow_type,
             Some(<< [name |-> flow.name,
                      dest |-> << [loc |-> conn_loc.loc,
                                   msg_conversion |-> None] >>,
                      source |-> <<>>] >>))

\* new_flows that keeps every flow, reversed ones with their source too
new_flows_keeps_reversed(flows) == flows

\* the flows that process_message_flows pushes to new_flows
new_flows(flows) ==
    SelectSeq(flows, LAMBDA flow : flow.source = <<>>)

RECURSIVE emitted_from(_, _, _, _)
\* what process_message_flows pushes to new_connections for flows[i..]
emitted_from(flows, flow_type, conn_loc, i) ==
    IF i > Len(flows) THEN <<>>
    ELSE [k \in 1..Len(flows[i].source) |->
             forward_conn(flows[i].source[k], flows[i], flow_type, conn_loc)]
         \o emitted_from(flows, flow_type, conn_loc, i + 1)

\* process_message_flows: the returned Option<Vec<flow>> and the connections
\* appended to new_connections
process_message_flows(flows, flow_type, conn_loc) ==
    LET has_source == \E i \in 1..Len(flows) : flows[i].source # <<>>
        result == IF has_source THEN new_flows(flows) ELSE flows
    IN [flows |-> IF result = <<>> THEN None ELSE Some(result),
        emitted |-> emitted_from(flows, flow_type, conn_loc, 1)]

\* has_reversed that takes any non-empty collection for a reversed one
has_reversed_any_flow(connections) ==
    \E c \in 1..Len(connections) : \E t \in MsgTypes :
        /\ IsSome(FlowsOf(connections[c], t))
        /\ Unwrap(FlowsOf(connections[c], t)) # <<>>

\* the closure check_flows combined over the four collections
has_reversed(connections) ==
    \E c \in 1..Len(connections) : \E t \in MsgTypes :
        /\ IsSome(FlowsOf(connections[c], t))
        /\ \E f \in 1..Len(Unwrap(FlowsOf(connections[c], t))) :
              Unwrap(FlowsOf(connections[c], t))[f].source # <<>>

\* one iteration of `for conn in connections`: what is appended to
\* new_connections (the emitted forward connections, then new_conn if it
\* still has flows)
process_connection(conn) ==
    LET conn_dest == [loc |-> conn.loc, msg_conversion |-> None]
        P(t) == process_message_flows(Unwrap(FlowsOf(conn, t)), t, conn_dest)
        R(t) == IF IsSome(FlowsOf(conn, t)) THEN P(t)
                ELSE [flows |-> None, emitted |-> <<>>]
        new_conn == [loc |-> Loc3(conn.loc.app, conn.loc.extension,
                                  conn.loc.subgraph),
                     cmd |-> R("cmd").flows, data |-> R("data").flows,
                     audio_frame |-> R("audio_frame").flows,
                     video_frame |-> R("video_frame").flows]
        emitted == R("cmd").emitted \o R("data").emitted
                   \o R("audio_frame").emitted \o R("video_frame").emitted
    IN IF \E t \in MsgTypes : IsSome(FlowsOf(new_conn, t))
       THEN Append(emitted, new_conn)
       ELSE emitted

RECURSIVE new_connections(_, _)
\* new_connections after the loop over connections[i..]
new_connections(connections, i) ==
    IF i > Len(connections) THEN <<>>
    ELSE process_connection(connections[i]) \o new_connections(connections, i + 1)

\* merge_into that assigns the flows of conn instead of extending the list
merge_into_overwrites(existing, conn) ==
    LET M(t) == IF IsSome(FlowsOf(conn, t)) THEN FlowsOf(conn, t)
                ELSE FlowsOf(existing, t)
    IN [loc |-> existing.loc, cmd |-> M("cmd"), data |-> M("data"),
        audio_frame |-> M("audio_frame"), video_frame |-> M("video_frame")]

\* existing.<t>.get_or_insert_with(Vec::new).extend(conn.<t>) for the four t
merge_into(existing, conn) ==
    LET M(t) == IF IsSome(FlowsOf(conn, t))
                THEN Some((IF IsSome(FlowsOf(existing, t))
                           THEN Unwrap(FlowsOf(existing, t)) ELSE <<>>)
                          \o Unwrap(FlowsOf(conn, t)))
                ELSE FlowsOf(existing, t)
    IN [loc |-> existing.loc, cmd |-> M("cmd"), data |-> M("data"),
        audio_frame |-> M("audio_frame"), video_frame |-> M("video_frame")]

RECURSIVE merged_connections(_, _, _)
\* the values of the HashMap after inserting conns[i..] into acc, listed in
\* the order their keys were first inserted
merged_connections(conns, i, acc) ==
    IF i > Len(conns) THEN acc
    ELSE LET idx == FirstIndex({ k \in 1..Len(acc) : acc[k].loc = conns[i].loc })
         IN merged_connections(conns, i + 1,
                IF idx # 0 THEN [acc EXCEPT ![idx] = merge_into(@, conns[i])]
                ELSE Append(acc, conns[i]))

\* the merged connections of a graph that has connections
MergedOf(g) ==
    merged_connections(new_connections(Unwrap(g.connections), 1), 1, <<>>)

\* the iteration orders HashMap::into_values may produce for graph g
IterationOrders(g) ==
    IF g.connections = None \/ ~has_reversed(Unwrap(g.connections))
    THEN {<<>>}
    ELSE Permutations(1..Len(MergedOf(g)))

\* convert_reversed_connections_to_forward_connections; order is the
\* iteration order of the HashMap in merged_connections.into_values()
convert_reversed_connections_to_forward_connections(g, order) ==
    IF g.connections = None THEN [status |-> "ok", value |-> None]
    ELSE IF ~has_reversed(Unwrap(g.connections))
    THEN [status |-> "ok", value |-> None]
    ELSE LET merged == MergedOf(g)
         IN [status |-> "ok",
             value |-> Some([g EXCEPT !.connections =
                               Some([i \in 1..Len(merged) |-> merged[order[i]]])])]

(* Bounds and inputs of the normalizer *)

\* total number of message flows in an input graph
MaxFlows == 3

RevA == Loc3(None, Some("some_extension"), None)

RevB == Loc3(None, Some("another_ext"), None)

RevC == Loc3(Some("app2"), None, Some("sub"))

\* the origins of the connections of an input graph
RevOrigins == {<<>>, <<RevA>>, <<RevA, RevA>>, <<RevA, RevB>>}

RevDest(l) == [loc |-> l, msg_conversion |-> None]

RevSource(l) == [loc |-> l]

\* the message flows an input graph is built from: forward flows, a reversed
\* flow without destinations, a reversed flow with destinations
RevFlows ==
    { [name |-> "hello", dest |-> <<RevDest(RevB)>>, source |-> <<>>],
      [name |-> "bye", dest |-> <<RevDest(RevC)>>, source |-> <<>>],
      [name |-> "hello", dest |-> <<>>, source |-> <<RevSource(RevB)>>],
      [name |-> "bye", dest |-> <<RevDest(RevB), RevDest(RevC)>>,
       source |-> <<RevSource(RevB), RevSource(RevC)>>] }

RevNodes ==
    << [type |-> "extension", name |-> "some_extension"],
       [type |-> "extension", name |-> "another_ext"] >>

RevSkeleton(origins) ==
    [nodes |-> RevNodes,
     connections |-> Some([i \in 1..Len(origins) |->
                             GraphConnection_new(origins[i].app,
                                                 origins[i].extension,
                                                 origins[i].subgraph)]),
     exposed_messages |-> Some(<<"m">>), exposed_properties |-> None]

\* graph g with flow appended to collection t of connection c
WithFlow(g, c, t, flow) ==
    [g EXCEPT !.connections[1][c] =
        SetFlows(@, t, Some((IF IsSome(FlowsOf(@, t))
                             THEN Unwrap(FlowsOf(@, t)) ELSE <<>>)
                            \o <<flow>>))]

RECURSIVE WithFlows(_, _, _)
\* graph g with the flows placed[i..] appended, each placed = <<c, t, flow>>:
\* connection c, collection MsgTypeOrder[t]
WithFlows(g, placed, i) ==
    IF i > Len(placed) THEN g
    ELSE WithFlows(WithFlow(g, placed[i][1], MsgTypeOrder[placed[i][2]],
                            placed[i][3]),
                   placed, i + 1)

RevGraphNoConnections ==
    [nodes |-> <<>>, connections |-> None,
     exposed_messages |-> None, exposed_properties |-> None]

\* the input graphs: no connections at all, or connections at the origins of
\* RevOrigins holding at most MaxFlows flows in all
IsRevInput(g) ==
    \/ g = RevGraphNoConnections
    \/ \E origins \in RevOrigins, n \in 0..MaxFlows :
          \E placed \in [1..n -> (1..Len(origins)) \X (1..4) \X RevFlows] :
              \* collections are filled one after the other
              /\ \A i \in 1..(n - 1) :
                    \/ placed[i][1] < placed[i + 1][1]
                    \/ /\ placed[i][1] = placed[i + 1][1]
                       /\ placed[i][2] <= placed[i + 1][2]
              /\ g = WithFlows(RevSkeleton(origins), placed, 1)

RevPending == [status |-> "pending"]

RevInit ==
    /\ IsRevInput(rv_graph)
    /\ rv_result = RevPending

\* total number of message flows in an input graph of the merge claims
MaxMergeFlows == 3

\* the collections the input graphs of the merge claims fill: cmd and data
MergeMsgTypes == 1..2

\* the input graphs of the merge claims: connections at the origins of
\* RevOrigins holding at most MaxMergeFlows flows in cmd and data
IsRevMergeInput(g) ==
    \E origins \in RevOrigins, n \in 0..MaxMergeFlows :
        \E placed \in [1..n -> (1..Len(origins)) \X MergeMsgTypes \X RevFlows] :
            /\ \A i \in 1..(n - 1) :
                  \/ placed[i][1] < placed[i + 1][1]
                  \/ /\ placed[i][1] = placed[i + 1][1]
                     /\ placed[i][2] <= placed[i + 1][2]
            /\ g = WithFlows(RevSkeleton(origins), placed, 1)

RevMergeInit ==
    /\ IsRevMergeInput(rv_graph)
    /\ rv_result = RevPending

\* one call of convert_reversed_connections_to_forward_connections
Convert ==
    /\ rv_result = RevPending
    /\ \E order \in IterationOrders(rv_graph) :
          rv_result' =
             convert_reversed_connections_to_forward_connections(rv_graph, order)
    /\ UNCHANGED rv_graph
    /\ UNCHANGED revOthers

----------------------------------------------------------------------------
(* Subgraph flattener: ten_rust/src/graph/subgraph.rs                       *)
(* Names of nodes and extensions are sequences of tokens; ":" and "_" are  *)
(* tokens of their own, so <<"sg", ":", "d">> is the name "sg:d".           *)

\* format!("{}_{}", a, b)
format_underscore(a, b) == a \o <<"_">> \o b

\* str::contains(':')
contains_colon(name) == \E i \in 1..Len(name) : name[i] = ":"

RECURSIVE split_colon(_)
\* str::split(':').collect::<Vec<&str>>()
split_colon(name) ==
    IF ~contains_colon(name) THEN <<name>>
    ELSE LET i == CHOOSE k \in 1..Len(name) :
                     name[k] = ":" /\ \A j \in 1..(k - 1) : name[j] # ":"
         IN <<SubSeq(name, 1, i - 1)>>
            \o split_colon(SubSeq(name, i + 1, Len(name)))

\* "Handle colon notation in extension field": prefix:ident -> prefix_ident
colon_to_underscore(extension) ==
    IF IsSome(extension) /\ contains_colon(Unwrap(extension))
       /\ Len(split_colon(Unwrap(extension))) = 2
    THEN Some(format_underscore(split_colon(Unwrap(extension))[1],
                                split_colon(Unwrap(extension))[2]))
    ELSE extension

\* GraphExposedMessageType chosen by (msg_type, is_source)
exposed_msg_type(msg_type, is_source) ==
    <<msg_type, IF is_source THEN "out" ELSE "in">>

\* "Merge properties if specified in the subgraph reference"
merge_property(node_property, ref_property) ==
    IF ref_property = None THEN node_property
    ELSE IF node_property = None THEN ref_property
    ELSE IF Unwrap(node_property).object /\ Unwrap(ref_property).object
    THEN Some([object |-> TRUE,
               fields |-> Unwrap(ref_property).fields
                          @@ Unwrap(node_property).fields])
    ELSE node_property

\* flattened_node keeping the node's own name
flattened_node_unprefixed(node, sub_node) ==
    [sub_node EXCEPT !.property = merge_property(@, node.property)]

\* one node of a loaded subgraph, flattened under subgraph node `node`
flattened_node(node, sub_node) ==
    [sub_node EXCEPT !.name = format_underscore(node.name, sub_node.name),
                     !.property = merge_property(@, node.property)]

\* the closure update_destinations of update_message_flows_for_subgraph
prefix_destinations(flows, subgraph_name) ==
    [f \in 1..Len(flows) |->
        [flows[f] EXCEPT !.dest =
            [d \in 1..Len(flows[f].dest) |->
                [flows[f].dest[d] EXCEPT
                    !.loc.extension =
                        IF IsSome(@)
                        THEN Some(format_underscore(subgraph_name, Unwrap(@)))
                        ELSE @,
                    !.loc.subgraph =
                        IF IsSome(@)
                        THEN Some(format_underscore(subgraph_name, Unwrap(@)))
                        ELSE @]]]]

update_message_flows_for_subgraph(connection, subgraph_name) ==
    LET U(t) == IF IsSome(FlowsOf(connection, t))
                THEN Some(prefix_destinations(Unwrap(FlowsOf(connection, t)),
                                              subgraph_name))
                ELSE None
    IN [connection EXCEPT !.cmd = U("cmd"), !.data = U("data"),
                          !.audio_frame = U("audio_frame"),
                          !.video_frame = U("video_frame")]

\* one internal connection of the subgraph loaded for `node`
flattened_internal_connection(node, connection) ==
    update_message_flows_for_subgraph(
        [connection EXCEPT !.loc.extension =
            IF IsSome(@) THEN Some(format_underscore(node.name, Unwrap(@)))
            ELSE @],
        node.name)

\* the lookup in exposed_messages shared by update_connection_source and
\* update_message_flows_for_flattening: the flattened extension name, or
\* the error
resolve_exposed(subgraph, subgraph_name, msg_type, flow_name) ==
    IF subgraph.exposed_messages = None
    THEN [result |-> "err", msg |-> "does not have exposed_messages defined"]
    ELSE LET exposed_messages == Unwrap(subgraph.exposed_messages)
             idx == FirstIndex({ k \in 1..Len(exposed_messages) :
                                 /\ exposed_messages[k].msg_type = msg_type
                                 /\ exposed_messages[k].name = flow_name })
         IN IF idx = 0
            THEN [result |-> "err", msg |-> "is not exposed by subgraph"]
            ELSE IF exposed_messages[idx].extension = None
            THEN [result |-> "err", msg |-> "does not specify an extension"]
            ELSE [result |-> "ok",
                  value |-> format_underscore(
                                subgraph_name,
                                Unwrap(exposed_messages[idx].extension))]

\* process_flows reading the last flow of the collection
process_flows_last_flow(connection, t, subgraph, subgraph_name) ==
    IF FlowsOf(connection, t) = None \/ Unwrap(FlowsOf(connection, t)) = <<>>
    THEN [result |-> "ok", value |-> None]
    ELSE LET flows == Unwrap(FlowsOf(connection, t))
             r == resolve_exposed(subgraph, subgraph_name,
                                  exposed_msg_type(t, TRUE),
                                  flows[Len(flows)].name)
         IN IF r.result = "err" THEN r
            ELSE [result |-> "ok", value |-> Some(r.value)]

\* the closure process_flows of update_connection_source for one collection:
\* Ok(None), Ok(Some(extension_name)) or Err
process_flows(connection, t, subgraph, subgraph_name) ==
    IF FlowsOf(connection, t) = None \/ Unwrap(FlowsOf(connection, t)) = <<>>
    THEN [result |-> "ok", value |-> None]
    ELSE LET r == resolve_exposed(subgraph, subgraph_name,
                                  exposed_msg_type(t, TRUE),
                                  Unwrap(FlowsOf(connection, t))[1].name)
         IN IF r.result = "err" THEN r
            ELSE [result |-> "ok", value |-> Some(r.value)]

RECURSIVE resolve_source(_, _, _, _, _)
\* "Process each message type" from collection MsgTypeOrder[i] on: the
\* extension the origin ends up with
resolve_source(connection, subgraph, subgraph_name, i, extension) ==
    IF i > Len(MsgTypeOrder) THEN [result |-> "ok", value |-> extension]
    ELSE LET r == process_flows(connection, MsgTypeOrder[i], subgraph,
                                subgraph_name)
         IN IF r.result = "err" THEN r
            ELSE resolve_source(connection, subgraph, subgraph_name, i + 1,
                                IF IsSome(r.value) THEN r.value ELSE extension)

update_connection_source(connection, subgraph_mappings) ==
    LET c1 == [connection EXCEPT !.loc.extension = colon_to_underscore(@)]
    IN IF c1.loc.subgraph = None
       THEN [result |-> "ok", value |-> c1]
       ELSE IF Unwrap(c1.loc.subgraph) \notin DOMAIN subgraph_mappings
       THEN [result |-> "err", msg |-> "Subgraph not found"]
       ELSE LET name == Unwrap(c1.loc.subgraph)
                r == resolve_source(c1, subgraph_mappings[name], name, 1,
                                    c1.loc.extension)
            IN IF r.result = "err" THEN r
               ELSE [result |-> "ok",
                     value |-> [c1 EXCEPT !.loc.extension = r.value,
                                          !.loc.subgraph = None]]

\* the body of `for dest in &mut flow.dest` in
\* update_message_flows_for_flattening
update_destination(dest, flow_name, msg_type, subgraph_mappings) ==
    LET d1 == [dest EXCEPT !.loc.extension = colon_to_underscore(@)]
    IN IF d1.loc.subgraph = None
       THEN [result |-> "ok", value |-> d1]
       ELSE IF Unwrap(d1.loc.subgraph) \notin DOMAIN subgraph_mappings
       THEN [result |-> "err", msg |-> "Subgraph not found"]
       ELSE LET name == Unwrap(d1.loc.subgraph)
                r == resolve_exposed(subgraph_mappings[name], name,
                                     exposed_msg_type(msg_type, FALSE),
                                     flow_name)
            IN IF r.result = "err" THEN r
               ELSE [result |-> "ok",
                     value |-> [d1 EXCEPT !.loc.extension = Some(r.value),
                                          !.loc.subgraph = None]]

\* the destinations of a connection in the order the code visits them:
\* <<collection, flow index, destination index>>
DestinationOrder(connection) ==
    LET At(t) == IF FlowsOf(connection, t) = None THEN {}
                 ELSE LET flows == Unwrap(FlowsOf(connection, t))
                      IN UNION { { <<t, f, d>> : d \in 1..Len(flows[f].dest) } :
                                 f \in 1..Len(flows) }
        all == UNION { At(t) : t \in MsgTypes }
        TypeIdx(t) == CHOOSE i \in 1..4 : MsgTypeOrder[i] = t
        Before(x, y) == \/ TypeIdx(x[1]) < TypeIdx(y[1])
                        \/ x[1] = y[1] /\ x[2] < y[2]
                        \/ x[1] = y[1] /\ x[2] = y[2] /\ x[3] < y[3]
    IN [first |-> { x \in all : \A y \in all \ {x} : Before(x, y) },
        before |-> [x \in all |-> { y \in all : Before(y, x) }],
        all |-> all]

update_message_flows_for_flattening(connection, subgraph_mappings) ==
    LET R(t, f, d) ==
            update_destination(Unwrap(FlowsOf(connection, t))[f].dest[d],
                               Unwrap(FlowsOf(connection, t))[f].name, t,
                               subgraph_mappings)
        order == DestinationOrder(connection)
        failed == { x \in order.all : R(x[1], x[2], x[3]).result = "err" }
        U(t) == IF FlowsOf(connection, t) = None THEN None
                ELSE Some([f \in 1..Len(Unwrap(FlowsOf(connection, t))) |->
                        [Unwrap(FlowsOf(connection, t))[f] EXCEPT !.dest =
                            [d \in 1..Len(Unwrap(FlowsOf(connection, t))[f].dest)
                                |-> R(t, f, d).value]]])
    IN IF failed # {}
       THEN \* the first destination that fails decides the error
            LET x == CHOOSE y \in failed : order.before[y] \cap failed = {}
            IN R(x[1], x[2], x[3])
       ELSE [result |-> "ok",
             value |-> [connection EXCEPT !.cmd = U("cmd"), !.data = U("data"),
                                          !.audio_frame = U("audio_frame"),
                                          !.video_frame = U("video_frame")]]

\* HashMap::insert
map_insert(m, k, v) ==
    [x \in (DOMAIN m) \cup {k} |-> IF x = k THEN v ELSE m[x]]

RECURSIVE flatten_nodes_without_nesting_check(_, _, _, _)
\* flatten_nodes inlining whatever node the loaded subgraph holds
flatten_nodes_without_nesting_check(nodes, subgraph_loader, i, acc) ==
    IF i > Len(nodes) THEN [result |-> "ok", value |-> acc]
    ELSE LET node == nodes[i]
         IN IF node.type_ = "extension"
            THEN flatten_nodes_without_nesting_check(
                    nodes, subgraph_loader, i + 1,
                    [acc EXCEPT !.nodes = Append(@, node)])
            ELSE IF node.source_uri = None
            THEN [result |-> "err", msg |-> "must have source_uri"]
            ELSE IF subgraph_loader[Unwrap(node.source_uri)].result = "err"
            THEN [result |-> "err", msg |-> "loader error"]
            ELSE LET subgraph == subgraph_loader[Unwrap(node.source_uri)].value
                 IN flatten_nodes_without_nesting_check(
                       nodes, subgraph_loader, i + 1,
                       [acc EXCEPT !.nodes = @ \o subgraph.nodes])

RECURSIVE flatten_nodes(_, _, _, _)
\* "Process all nodes" from nodes[i] on; acc holds flattened_nodes,
\* flattened_connections and subgraph_mappings
flatten_nodes(nodes, subgraph_loader, i, acc) ==
    IF i > Len(nodes) THEN [result |-> "ok", value |-> acc]
    ELSE LET node == nodes[i]
         IN IF node.type_ = "extension"
            THEN flatten_nodes(nodes, subgraph_loader, i + 1,
                               [acc EXCEPT !.nodes = Append(@, node)])
            ELSE IF node.source_uri = None
            THEN [result |-> "err", msg |-> "must have source_uri"]
            ELSE IF subgraph_loader[Unwrap(node.source_uri)].result = "err"
            THEN [result |-> "err", msg |-> "loader error"]
            ELSE LET subgraph == subgraph_loader[Unwrap(node.source_uri)].value
                 IN IF \E k \in 1..Len(subgraph.nodes) :
                          subgraph.nodes[k].type_ # "extension"
                    THEN [result |-> "err",
                          msg |-> "Nested subgraphs are not supported"]
                    ELSE flatten_nodes(nodes, subgraph_loader, i + 1,
                           [nodes |-> acc.nodes
                               \o [k \in 1..Len(subgraph.nodes) |->
                                      flattened_node(node, subgraph.nodes[k])],
                            connections |-> acc.connections
                               \o (IF subgraph.connections = None THEN <<>>
                                   ELSE [k \in 1..Len(Unwrap(subgraph.connections))
                                           |-> flattened_internal_connection(
                                                  node,
                                                  Unwrap(subgraph.connections)[k])]),
                            mappings |-> map_insert(acc.mappings, node.name,
                                                    subgraph)])

\* one iteration of "Process connections from the main graph"
flatten_connection(connection, subgraph_mappings) ==
    LET r == update_connection_source(connection, subgraph_mappings)
    IN IF r.result = "err" THEN r
       ELSE update_message_flows_for_flattening(r.value, subgraph_mappings)

\* Graph::flatten
flatten(self, subgraph_loader) ==
    LET n == flatten_nodes(self.nodes, subgraph_loader, 1,
                           [nodes |-> <<>>, connections |-> <<>>,
                            mappings |-> <<>>])
    IN IF n.result = "err" THEN n
       ELSE LET outer == IF self.connections = None THEN <<>>
                         ELSE Unwrap(self.connections)
                R(c) == flatten_connection(outer[c], n.value.mappings)
                failed == { c \in 1..Len(outer) : R(c).result = "err" }
                flattened_connections ==
                    n.value.connections \o [c \in 1..Len(outer) |-> R(c).value]
            IN IF failed # {}
               THEN R(CHOOSE c \in failed : \A e \in failed : c <= e)
               ELSE [result |-> "ok",
                     value |-> [nodes |-> n.value.nodes,
                                connections |->
                                    IF flattened_connections = <<>> THEN None
                                    ELSE Some(flattened_connections),
                                exposed_messages |-> None,
                                exposed_properties |-> None]]

\* inputs of the flattener
MaxOuterFlows == 2

FlatNode(type_, name, addon, property, source_uri) ==
    [type_ |-> type_, name |-> name, addon |-> addon,
     extension_group |-> None, app |-> None, property |-> property,
     source_uri |-> source_uri]

PropObject(fields) == [object |-> TRUE, fields |-> fields]
PropScalar(v) == [object |-> FALSE, value |-> v]

ExtA == FlatNode("extension", <<"a">>, Some("addon_a"), None, None)
Sg1 == FlatNode("subgraph", <<"sg">>, None,
                Some(PropObject([app_id |-> "ref", log |-> "ref"])),
                Some("u1"))
Sg2 == FlatNode("subgraph", <<"sh">>, None, Some(PropScalar("ref")),
                Some("u2"))
SgNoUri == FlatNode("subgraph", <<"sg">>, None, None, None)

InnerC == FlatNode("extension", <<"c">>, Some("addon_c"),
                   Some(PropObject([app_id |-> "own"])), None)
InnerD == FlatNode("extension", <<"d">>, Some("addon_d"), None, None)
InnerE == FlatNode("extension", <<"e">>, Some("addon_e"),
                   Some(PropObject([log |-> "own"])), None)
InnerSub == FlatNode("subgraph", <<"inner">>, None, None, Some("u2"))

FlatDest(loc) == [loc |-> loc, msg_conversion |-> None]
FlatFlow(name, dests) == [name |-> name, dest |-> dests, source |-> <<>>]
Exposed(msg_type, dir, name, extension) ==
    [msg_type |-> <<msg_type, dir>>, name |-> name, extension |-> extension]

\* c sends B and d sends Q; d receives B and c receives Q; the subgraph
\* exposes no video_frame Q, and audio_frame Q without an extension
BasicExposed ==
    << Exposed("cmd", "out", "B", Some(<<"c">>)),
       Exposed("cmd", "out", "Q", Some(<<"d">>)),
       Exposed("cmd", "in", "B", Some(<<"d">>)),
       Exposed("cmd", "in", "Q", Some(<<"c">>)),
       Exposed("data", "out", "B", Some(<<"c">>)),
       Exposed("data", "out", "Q", Some(<<"d">>)),
       Exposed("data", "in", "B", Some(<<"d">>)),
       Exposed("data", "in", "Q", Some(<<"c">>)),
       Exposed("audio_frame", "out", "B", Some(<<"c">>)),
       Exposed("audio_frame", "out", "Q", None),
       Exposed("audio_frame", "in", "B", Some(<<"d">>)),
       Exposed("audio_frame", "in", "Q", None),
       Exposed("video_frame", "out", "B", Some(<<"c">>)),
       Exposed("video_frame", "in", "B", Some(<<"d">>)),
       Exposed("cmd", "in", "B", Some(<<"c">>)) >>

InnerConnection ==
    [GraphConnection_new(None, Some(<<"c">>), None) EXCEPT
        !.cmd = Some(<<FlatFlow("B",
                         <<FlatDest(Loc3(None, Some(<<"d">>), None))>>)>>)]

\* a connection of a loaded subgraph that itself names a subgraph, by field
\* and by colon notation
InnerRefConnection ==
    [GraphConnection_new(None, Some(<<"d">>), None) EXCEPT
        !.data = Some(<<FlatFlow("Q",
                          <<FlatDest(Loc3(None, None, Some(<<"inner">>))),
                            FlatDest(Loc3(None, Some(<<"inner", ":", "x">>),
                                          None))>>)>>)]

\* a connection of a loaded subgraph to the built-in extension ten:x
InnerTenConnection ==
    [GraphConnection_new(None, Some(<<"c">>), None) EXCEPT
        !.cmd = Some(<<FlatFlow("B",
                         <<FlatDest(Loc3(None, Some(<<"ten", ":", "x">>),
                                         None))>>)>>)]

InnerGraph(nodes, connections, exposed_messages) ==
    [nodes |-> nodes, connections |-> connections,
     exposed_messages |-> exposed_messages, exposed_properties |-> None]

InnerBasic == InnerGraph(<<InnerC, InnerD>>, Some(<<InnerConnection>>),
                         Some(BasicExposed))
InnerOther == InnerGraph(<<InnerE>>, None, None)
InnerNested == InnerGraph(<<InnerC, InnerSub>>, None, Some(BasicExposed))
InnerRefs == InnerGraph(<<InnerC, InnerD>>,
                        Some(<<InnerConnection, InnerRefConnection>>),
                        Some(BasicExposed))

InnerTen == InnerGraph(<<InnerC, InnerD>>, Some(<<InnerTenConnection>>),
                       Some(BasicExposed))

Loaded(g) == [result |-> "ok", value |-> g]
LoadError == [result |-> "err"]
Loader(r1, r2) == [u \in {"u1", "u2"} |-> IF u = "u1" THEN r1 ELSE r2]

OriginA == Loc3(None, Some(<<"a">>), None)
OriginColon == Loc3(None, Some(<<"sg", ":", "c">>), None)
OriginSub == Loc3(None, None, Some(<<"sg">>))
OriginTen == Loc3(None, Some(<<"ten", ":", "x">>), None)
FlatOrigins ==
    { <<>>, <<OriginA>>, <<OriginColon>>, <<OriginSub>>, <<OriginTen>>,
      <<OriginA, OriginSub>> }

\* the origins tried where the outer connections are not what is varied
FlatOriginsFew == { <<>>, <<OriginSub>> }

\* <<nodes of the outer graph, subgraph_loader, origins of the outer
\* connections>>
FlatWorlds ==
    { <<<<ExtA>>, Loader(LoadError, LoadError), FlatOrigins>>,
      <<<<ExtA, Sg1>>, Loader(Loaded(InnerBasic), LoadError), FlatOrigins>>,
      <<<<Sg1, ExtA, Sg2>>, Loader(Loaded(InnerBasic), Loaded(InnerOther)),
        FlatOrigins>>,
      <<<<ExtA, Sg1>>, Loader(Loaded(InnerRefs), LoadError), FlatOriginsFew>>,
      <<<<ExtA, Sg1>>, Loader(Loaded(InnerTen), LoadError), FlatOriginsFew>>,
      <<<<ExtA, Sg1>>, Loader(Loaded(InnerNested), Loaded(InnerOther)),
        FlatOriginsFew>>,
      <<<<ExtA, Sg1>>, Loader(LoadError, LoadError), FlatOriginsFew>>,
      <<<<ExtA, SgNoUri>>, Loader(Loaded(InnerBasic), LoadError),
        FlatOriginsFew>>,
      <<<<SgNoUri, Sg2>>, Loader(LoadError, Loaded(InnerNested)),
        FlatOriginsFew>>,
      <<<<Sg2, SgNoUri>>, Loader(LoadError, Loaded(InnerNested)),
        FlatOriginsFew>>,
      <<<<Sg1, ExtA, Sg2>>, Loader(Loaded(InnerBasic), Loaded(InnerNested)),
        FlatOriginsFew>> }

DestA == FlatDest(Loc3(None, Some(<<"a">>), None))
DestColon == FlatDest(Loc3(None, Some(<<"sg", ":", "d">>), None))
DestSub == FlatDest(Loc3(None, None, Some(<<"sg">>)))
DestTen == FlatDest(Loc3(None, Some(<<"ten", ":", "x">>), None))
DestTwoColons == FlatDest(Loc3(None, Some(<<"sg", ":", "c", ":", "d">>), None))
FlatFlows ==
    << FlatFlow("B", <<DestA>>), FlatFlow("B", <<DestSub>>),
       FlatFlow("Q", <<DestSub>>), FlatFlow("B", <<DestColon>>),
       FlatFlow("B", <<DestTen>>), FlatFlow("Q", <<DestTwoColons>>),
       FlatFlow("Q", <<DestSub, DestColon>>) >>

FlatSkeleton(nodes, origins) ==
    [nodes |-> nodes,
     connections |-> Some([c \in 1..Len(origins) |->
                             GraphConnection_new(origins[c].app,
                                                 origins[c].extension,
                                                 origins[c].subgraph)]),
     exposed_messages |-> None, exposed_properties |-> None]

FlatGraphNoConnections(nodes) ==
    [nodes |-> nodes, connections |-> None,
     exposed_messages |-> None, exposed_properties |-> None]

\* g is an outer graph over `nodes`: no connections at all, or connections
\* at origins holding at most MaxOuterFlows flows, placed slot by slot
IsFlatInput(g, nodes, origin_lists) ==
    \/ g = FlatGraphNoConnections(nodes)
    \/ \E origins \in origin_lists, n \in 0..MaxOuterFlows :
         \E placed \in [1..n -> (1..Len(origins)) \X (1..4)
                                \X (1..Len(FlatFlows))] :
            /\ \A i \in 1..(n - 1) :
                  \/ placed[i][1] < placed[i + 1][1]
                  \/ /\ placed[i][1] = placed[i + 1][1]
                     /\ placed[i][2] <= placed[i + 1][2]
            /\ g = WithFlows(FlatSkeleton(nodes, origins),
                             [i \in 1..n |-> <<placed[i][1], placed[i][2],
                                               FlatFlows[placed[i][3]]>>], 1)

FlatPending == [result |-> "pending"]

FlatInit ==
    /\ \E w \in FlatWorlds :
          /\ fl_loader = w[2]
          /\ IsFlatInput(fl_graph, w[1], w[3])
    /\ fl_result = FlatPending
    /\ fl_calls = <<>>
    /\ fl_again = FlatPending

RECURSIVE loader_calls(_, _, _)
\* the source_uris subgraph_loader is called with while nodes[i..] are
\* processed, up to the node that makes flatten return
loader_calls(nodes, subgraph_loader, i) ==
    IF i > Len(nodes) THEN <<>>
    ELSE IF nodes[i].type_ = "extension"
    THEN loader_calls(nodes, subgraph_loader, i + 1)
    ELSE IF nodes[i].source_uri = None THEN <<>>
    ELSE LET r == subgraph_loader[Unwrap(nodes[i].source_uri)]
         IN <<Unwrap(nodes[i].source_uri)>>
            \o (IF \/ r.result = "err"
                    \/ \E k \in 1..Len(r.value.nodes) :
                          r.value.nodes[k].type_ # "extension"
                THEN <<>>
                ELSE loader_calls(nodes, subgraph_loader, i + 1))

\* the loaders the flattened graph is flattened again with
AgainLoaders == {fl_loader, Loader(LoadError, LoadError)}

\* one call of Graph::flatten on the outer graph
Flatten ==
    /\ fl_result = FlatPending
    /\ fl_result' = flatten(fl_graph, fl_loader)
    /\ fl_calls' = loader_calls(fl_graph.nodes, fl_loader, 1)
    /\ UNCHANGED <<fl_graph, fl_loader, fl_again>>
    /\ UNCHANGED flatOthers

\* a second call of Graph::flatten, on the graph the first call returned
FlattenAgain ==
    /\ fl_result.result = "ok"
    /\ fl_again = FlatPending
    /\ \E subgraph_loader \in AgainLoaders :
          fl_again' = flatten(fl_result.value, subgraph_loader)
    /\ UNCHANGED <<fl_graph, fl_loader, fl_result, fl_calls>>
    /\ UNCHANGED flatOthers

----------------------------------------------------------------------------
(* Subgraph reference check: ten_rust/src/graph/check/subgraph_references.rs *)

\* GraphNode::get_app_uri
node_get_app_uri(node) ==
    IF node.type_ = "extension" THEN node.app ELSE None

\* GraphConnection::get_app_uri and GraphDestination::get_app_uri
loc_get_app_uri(loc) == loc.app

\* format!("{}:{}", app_uri.as_ref().map_or("", |s| s.as_str()), name)
subgraph_identifier(app_uri, name) ==
    (IF app_uri = None THEN <<>> ELSE Unwrap(app_uri)) \o <<":">> \o name

\* "Build a comprehensive list of all subgraph identifiers in the graph"
all_subgraphs(self) ==
    LET subgraphs == SelectSeq(self.nodes, LAMBDA n : n.type_ = "subgraph")
    IN [k \in 1..Len(subgraphs) |->
           subgraph_identifier(node_get_app_uri(subgraphs[k]),
                               subgraphs[k].name)]

\* &extension_name[..colon_pos] with colon_pos = extension_name.find(':')
colon_prefix(extension_name) ==
    SubSeq(extension_name, 1,
           FirstIndex({ k \in 1..Len(extension_name) :
                          extension_name[k] = ":" }) - 1)

\* the two checks made on one location: its subgraph field, then the
\* namespace of its extension name; "ok", or which of the two failed
check_loc_references(loc, identifiers) ==
    IF /\ IsSome(loc.subgraph)
       /\ subgraph_identifier(loc_get_app_uri(loc), Unwrap(loc.subgraph))
             \notin Range(identifiers)
    THEN "subgraph"
    ELSE IF /\ IsSome(loc.extension)
            /\ contains_colon(Unwrap(loc.extension))
            /\ colon_prefix(Unwrap(loc.extension)) # <<"ten">>
            /\ subgraph_identifier(loc_get_app_uri(loc),
                                   colon_prefix(Unwrap(loc.extension)))
                  \notin Range(identifiers)
    THEN "extension"
    ELSE "ok"

\* Graph::check_destination_subgraph_references_exist; positions count from
\* 0 as enumerate() does
check_destination_subgraph_references_exist(identifiers, flows, conn_idx, msg_type) ==
    LET dests == UNION { { <<f, d>> : d \in 1..Len(flows[f].dest) } :
                         f \in 1..Len(flows) }
        failed == { x \in dests :
                      /\ check_loc_references(flows[x[1]].dest[x[2]].loc,
                                              identifiers) # "ok" }
    IN IF failed = {} THEN [result |-> "ok"]
       ELSE LET x == CHOOSE y \in failed :
                        \A z \in failed :
                           y[1] < z[1] \/ (y[1] = z[1] /\ y[2] <= z[2])
            IN [result |-> "err", msg |-> "is not defined in nodes",
                at |-> <<conn_idx, msg_type, x[1] - 1, x[2] - 1>>]

RECURSIVE check_flows_from(_, _, _, _)
\* the four calls made for one connection, from collection MsgTypeOrder[i] on
check_flows_from(identifiers, connection, conn_idx, i) ==
    IF i > Len(MsgTypeOrder) THEN [result |-> "ok"]
    ELSE LET flows == FlowsOf(connection, MsgTypeOrder[i])
             r == IF flows = None THEN [result |-> "ok"]
                  ELSE check_destination_subgraph_references_exist(
                          identifiers, Unwrap(flows), conn_idx,
                          MsgTypeOrder[i])
         IN IF r.result = "err" THEN r
            ELSE check_flows_from(identifiers, connection, conn_idx, i + 1)

RECURSIVE check_connections_from(_, _, _)
\* "Validate each connection in the graph", from connections[c] on
check_connections_from(identifiers, connections, c) ==
    IF c > Len(connections) THEN [result |-> "ok"]
    ELSE IF check_loc_references(connections[c].loc, identifiers) # "ok"
    THEN [result |-> "err", msg |-> "is not defined in nodes",
          at |-> <<c - 1>>]
    ELSE LET r == check_flows_from(identifiers, connections[c], c - 1, 1)
         IN IF r.result = "err" THEN r
            ELSE check_connections_from(identifiers, connections, c + 1)

\* Graph::check_subgraph_references_exist
check_subgraph_references_exist(self) ==
    IF self.connections = None THEN [result |-> "ok"]
    ELSE check_connections_from(all_subgraphs(self),
                                Unwrap(self.connections), 1)

\* inputs of the reference check
MaxRefFlows == 2

App1 == Some(<<"app1">>)

\* nodes: none but an extension; a subgraph sg; a subgraph sg beside an
\* extension that declares its app
RefNodeLists ==
    { <<ExtA>>, <<ExtA, Sg1>>, <<[ExtA EXCEPT !.app = App1], Sg1>> }

\* locations naming the extension a, the declared subgraph sg, the
\* undeclared subgraph no and the built-in ten, without and with an app
RefLocs ==
    << Loc3(None, Some(<<"a">>), None),
       Loc3(None, Some(<<"sg", ":", "c">>), None),
       Loc3(None, Some(<<"ten", ":", "x">>), None),
       Loc3(None, Some(<<"no", ":", "c">>), None),
       Loc3(None, None, Some(<<"sg">>)),
       Loc3(None, None, Some(<<"no">>)),
       Loc3(App1, None, Some(<<"sg">>)),
       Loc3(App1, Some(<<"sg", ":", "c">>), None) >>

RefOrigins ==
    { <<RefLocs[k]>> : k \in 1..Len(RefLocs) }
    \cup { <<RefLocs[1], RefLocs[k]>> : k \in {2, 5, 6} }

RefFlows == [k \in 1..Len(RefLocs) |-> FlatFlow("B", <<FlatDest(RefLocs[k])>>)]

\* g is a graph over `nodes`: no connections at all, or connections at
\* origins holding at most MaxRefFlows flows, placed slot by slot
IsRefInput(g, nodes) ==
    \/ g = FlatGraphNoConnections(nodes)
    \/ \E origins \in RefOrigins, n \in 0..MaxRefFlows :
         \E placed \in [1..n -> (1..Len(origins)) \X (1..4)
                                \X (1..Len(RefFlows))] :
            /\ \A i \in 1..(n - 1) :
                  \/ placed[i][1] < placed[i + 1][1]
                  \/ /\ placed[i][1] = placed[i + 1][1]
                     /\ placed[i][2] <= placed[i + 1][2]
            /\ g = WithFlows(FlatSkeleton(nodes, origins),
                             [i \in 1..n |-> <<placed[i][1], placed[i][2],
                                               RefFlows[placed[i][3]]>>], 1)

RefsPending == [result |-> "pending"]

RefsInit ==
    /\ \E nodes \in RefNodeLists : IsRefInput(rf_graph, nodes)
    /\ rf_result = RefsPending

\* one call of Graph::check_subgraph_references_exist
CheckReferences ==
    /\ rf_result = RefsPending
    /\ rf_result' = check_subgraph_references_exist(rf_graph)
    /\ UNCHANGED rf_graph
    /\ UNCHANGED refsOthers

----------------------------------------------------------------------------
(* Node validation: ten_rust/src/graph/node/mod.rs                          *)

\* pkg_info::localhost()
localhost == "localhost"

\* AppUriDeclarationState and AppUriDeclarationState::is_single_app_graph
AppUriDeclarationStates == {"NoneDeclared", "UniformDeclared", "MixedDeclared"}

is_single_app_graph(app_uri_declaration_state) ==
    app_uri_declaration_state \in {"NoneDeclared", "UniformDeclared"}

\* GraphNode::Extension { content: ExtensionNode }
ExtensionNode(name, addon, extension_group, app, property) ==
    [type_ |-> "extension", name |-> name, addon |-> addon,
     extension_group |-> extension_group, app |-> app, property |-> property]

\* GraphNode::Subgraph { content: SubgraphNode }
SubgraphNode(name, property, import_uri) ==
    [type_ |-> "subgraph", name |-> name, property |-> property,
     graph |-> [import_uri |-> import_uri]]

\* GraphNode::validate_and_complete always accepting a node
GraphNode_validate_and_complete_accepting(self, app_uri_declaration_state) ==
    [result |-> "ok", self |-> self]

\* GraphNode::validate_and_complete; self is the node as the call leaves it
GraphNode_validate_and_complete(self, app_uri_declaration_state) ==
    IF self.type_ = "extension"
    THEN IF IsSome(self.app) /\ Unwrap(self.app) = localhost
         THEN [result |-> "err",
               msg |-> IF is_single_app_graph(app_uri_declaration_state)
                       THEN "ERR_MSG_GRAPH_LOCALHOST_FORBIDDEN_IN_SINGLE_APP_MODE"
                       ELSE "ERR_MSG_GRAPH_LOCALHOST_FORBIDDEN_IN_MULTI_APP_MODE",
               self |-> self]
         ELSE [result |-> "ok", self |-> self]
    ELSE [result |-> "ok", self |-> self]

\* inputs of the node validation
NodeApps == {None, Some("localhost"), Some("LOCALHOST"), Some("localhost:8000"),
             Some("msgpack://127.0.0.1:8001/")}

NodeInputs ==
    { ExtensionNode(name, "addon", group, app, property) :
        name \in {"a", "b"}, group \in {None, Some("g")}, app \in NodeApps,
        property \in {None, Some("p")} }
    \cup { SubgraphNode(name, property, uri) :
             name \in {"localhost", "sg"}, property \in {None, Some("p")},
             uri \in {"u1", "localhost"} }

NodePending == [result |-> "pending"]

NodeInit ==
    /\ nv_node \in NodeInputs
    /\ nv_state \in AppUriDeclarationStates
    /\ nv_result = NodePending

\* one call of GraphNode::validate_and_complete
ValidateNode ==
    /\ nv_result = NodePending
    /\ LET r == GraphNode_validate_and_complete(nv_node, nv_state)
       IN /\ nv_node' = r.self
          /\ nv_result' = [x \in (DOMAIN r) \ {"self"} |-> r[x]]
    /\ UNCHANGED nv_state
    /\ UNCHANGED nodeOthers

----------------------------------------------------------------------------
(* URI resolver: ten_rust/src/path.rs                                       *)
(* A string is a sequence of tokens: "/", ":", "\\", ".", "..", and names.   *)
(* Url_* and Path_* model the url crate and std::path as the resolver uses  *)
(* them (Unix paths).                                                       *)

\* tokens that stand for a single character
OneCharTokens == {"/", ":", "\\", ".", "a", "b", "h", "C", "x"}

\* tokens that can start a URL scheme (an ASCII letter first)
IsSchemeToken(t) == t \notin {"/", ":", "\\", ".", ".."}

\* str::to_ascii_lowercase on a scheme, as Url::parse applies it
ascii_lowercase(t) ==
    CASE t = "HTTP" -> "http"
      [] t = "C" -> "c"
      [] OTHER -> t

\* the schemes with an authority and a hierarchical path
SpecialSchemes == {"http", "https", "ftp", "file"}

UrlParseError == [ok |-> FALSE]

SpecialUrl(scheme, host, path) ==
    [ok |-> TRUE, scheme |-> scheme, special |-> TRUE, host |-> host, path |-> path, opaque |-> <<>>]

OpaqueUrl(scheme, rest) ==
    [ok |-> TRUE, scheme |-> scheme, special |-> FALSE, host |-> <<>>, path |-> <<>>, opaque |-> rest]

\* Path::is_absolute on Unix
Path_is_absolute(s) == s # <<>> /\ s[1] = "/"

RECURSIVE strip_slashes(_)
strip_slashes(s) ==
    IF s # <<>> /\ s[1] = "/" THEN strip_slashes(Tail(s)) ELSE s

\* the segments of a URL path "/s1/s2...": the empty string is a segment
RECURSIVE url_segments(_)
url_segments(p) ==
    IF p = <<>> THEN <<>>
    ELSE IF Len(p) = 1 THEN <<"">>
    ELSE IF p[2] = "/" THEN <<"">> \o url_segments(Tail(p))
    ELSE <<p[2]>> \o url_segments(SubSeq(p, 3, Len(p)))

\* a URL parser's handling of "." and ".." segments
RECURSIVE dot_segments(_, _, _)
dot_segments(segs, i, out) ==
    IF i > Len(segs) THEN out
    ELSE LET seg == segs[i]
             is_last == i = Len(segs)
             popped == IF out = <<>> THEN out ELSE SubSeq(out, 1, Len(out) - 1)
         IN  CASE seg = ".." ->
                    dot_segments(segs, i + 1, IF is_last THEN Append(popped, "") ELSE popped)
               [] seg = "." ->
                    dot_segments(segs, i + 1, IF is_last THEN Append(out, "") ELSE out)
               [] OTHER ->
                    dot_segments(segs, i + 1, Append(out, seg))

\* the path of a special URL, from the tokens after the host
url_path(p) ==
    IF p = <<>> THEN <<"">> ELSE dot_segments(url_segments(p), 1, <<>>)

\* Url::parse
Url_parse(s) ==
    IF Len(s) < 2 \/ ~IsSchemeToken(s[1]) \/ s[2] # ":" THEN UrlParseError
    ELSE LET scheme == ascii_lowercase(s[1])
             rest == SubSeq(s, 3, Len(s))
             r == strip_slashes(rest)
         IN  IF scheme = "file"
             THEN IF Len(rest) >= 2 /\ rest[1] = "/" /\ rest[2] = "/"
                  THEN LET after == SubSeq(rest, 3, Len(rest))
                       IN  IF after = <<>> \/ after[1] = "/"
                           THEN SpecialUrl(scheme, <<>>, url_path(after))
                           ELSE SpecialUrl(scheme, <<after[1]>>, url_path(Tail(after)))
                  ELSE IF rest # <<>> /\ rest[1] = "/"
                  THEN SpecialUrl(scheme, <<>>, url_path(rest))
                  ELSE SpecialUrl(scheme, <<>>, url_path(<<"/">> \o rest))
             ELSE IF scheme \in SpecialSchemes
             THEN IF r = <<>> THEN UrlParseError
                  ELSE SpecialUrl(scheme, <<r[1]>>, url_path(Tail(r)))
             ELSE OpaqueUrl(scheme, rest)

RECURSIVE serialize_path(_)
serialize_path(segs) ==
    IF segs = <<>> THEN <<>>
    ELSE <<"/">> \o (IF segs[1] = "" THEN <<>> ELSE <<segs[1]>>) \o serialize_path(Tail(segs))

\* Url::to_string
Url_to_string(u) ==
    IF u.special
    THEN <<u.scheme, ":", "/", "/">> \o u.host \o serialize_path(u.path)
    ELSE <<u.scheme, ":">> \o u.opaque

\* the base URL after "if !base_url.path().ends_with('/') { set_path(path + "/") }"
Url_with_trailing_slash(u) ==
    IF u.special /\ u.path[Len(u.path)] # ""
    THEN [u EXCEPT !.path = Append(u.path, "")]
    ELSE u

\* Url::join with a relative path: fails on a URL that cannot be a base
Url_join(base, rel) ==
    IF ~base.special THEN UrlParseError
    ELSE SpecialUrl(base.scheme, base.host,
                    dot_segments(SubSeq(base.path, 1, Len(base.path) - 1)
                                   \o url_segments(<<"/">> \o rel), 1, <<>>))

\* Path::join
Path_join(base, rel) ==
    IF Path_is_absolute(rel) \/ base = <<>> THEN rel
    ELSE IF base[Len(base)] = "/" THEN base \o rel
    ELSE base \o <<"/">> \o rel

\* the names between the separators of a path, each a sequence of tokens
RECURSIVE path_names(_, _)
path_names(p, cur) ==
    IF p = <<>> THEN (IF cur = <<>> THEN <<>> ELSE <<cur>>)
    ELSE IF p[1] = "/"
    THEN (IF cur = <<>> THEN <<>> ELSE <<cur>>) \o path_names(Tail(p), <<>>)
    ELSE path_names(Tail(p), Append(cur, p[1]))

\* Path::components: "." is kept only as the first component of a relative path
Path_components(p) ==
    LET names == path_names(p, <<>>)
        kind(i) == IF names[i] = <<".">> THEN "CurDir"
                   ELSE IF names[i] = <<"..">> THEN "ParentDir"
                   ELSE "Normal"
        kept == { i \in 1..Len(names) :
                    kind(i) # "CurDir" \/ (i = 1 /\ ~Path_is_absolute(p)) }
        comp(i) == [kind |-> kind(i), name |-> names[i]]
        RECURSIVE from(_)
        from(i) == IF i > Len(names) THEN <<>>
                   ELSE (IF i \in kept THEN <<comp(i)>> ELSE <<>>) \o from(i + 1)
    IN  (IF Path_is_absolute(p) THEN <<[kind |-> "RootDir", name |-> <<>>]>> ELSE <<>>)
          \o from(1)

RECURSIVE join_slash(_)
join_slash(names) ==
    IF names = <<>> THEN <<>>
    ELSE IF Len(names) = 1 THEN names[1]
    ELSE names[1] \o <<"/">> \o join_slash(Tail(names))

\* the loop of normalize_path_components over path.components()
RECURSIVE normalize_loop(_, _, _)
normalize_loop(comps, i, components) ==
    IF i > Len(comps) THEN components
    ELSE LET c == comps[i]
         IN  CASE c.kind \in {"RootDir", "CurDir"} ->
                    normalize_loop(comps, i + 1, components)
               [] c.kind = "ParentDir" ->
                    IF Len(components) > 1 \/ (Len(components) = 1 /\ components[1] # <<>>)
                    THEN normalize_loop(comps, i + 1, SubSeq(components, 1, Len(components) - 1))
                    ELSE IF components = <<>>
                    THEN normalize_loop(comps, i + 1, Append(components, <<"..">>))
                    ELSE normalize_loop(comps, i + 1, components)
               [] OTHER ->
                    normalize_loop(comps, i + 1, Append(components, c.name))

normalize_path_components(path) ==
    LET start == IF Path_is_absolute(path) THEN << <<>> >> ELSE <<>>
        components == normalize_loop(Path_components(path), 1, start)
    IN  IF components = <<>> THEN [result |-> "ok", value |-> <<".">>]
        ELSE IF Path_is_absolute(path)
        THEN IF Len(components) = 1 /\ components[1] = <<>>
             THEN [result |-> "ok", value |-> <<"/">>]
             ELSE [result |-> "ok", value |-> <<"/">> \o join_slash(Tail(components))]
        ELSE [result |-> "ok", value |-> join_slash(components)]

\* the first check of get_real_path_from_import_uri
is_absolute(import_uri) ==
    \/ Path_is_absolute(import_uri)
    \/ /\ Len(import_uri) >= 3
       /\ import_uri[1] \in OneCharTokens
       /\ import_uri[2] = ":"
       /\ import_uri[3] = "\\"

\* a variant of the resolver that asks for base_dir before looking at the URL
get_real_path_base_dir_first(import_uri, base_dir) ==
    IF is_absolute(import_uri) THEN [result |-> "err", msg |-> "Absolute paths are not supported"]
    ELSE IF base_dir = <<>> THEN [result |-> "err", msg |-> "Base directory is not provided"]
    ELSE IF Url_parse(import_uri).ok
    THEN [result |-> "ok", value |-> Url_to_string(Url_parse(import_uri))]
    ELSE normalize_path_components(Path_join(base_dir, import_uri))

get_real_path_from_import_uri(import_uri, base_dir) ==
    LET url == Url_parse(import_uri)
        parsed_base == Url_parse(base_dir)
        base_url == Url_with_trailing_slash(parsed_base)
        resolved_url == Url_join(base_url, import_uri)
    IN  IF is_absolute(import_uri)
        THEN [result |-> "err", msg |-> "Absolute paths are not supported"]
        ELSE IF url.ok
        THEN IF url.scheme \in {"http", "https", "file"}
             THEN [result |-> "ok", value |-> Url_to_string(url)]
             ELSE [result |-> "err", msg |-> "Unsupported URL scheme"]
        ELSE IF base_dir = <<>>
        THEN [result |-> "err", msg |-> "Base directory is not provided"]
        ELSE IF /\ parsed_base.ok
                /\ parsed_base.scheme \notin OneCharTokens
                /\ parsed_base.scheme # "c"
        THEN IF resolved_url.ok
             THEN [result |-> "ok", value |-> Url_to_string(resolved_url)]
             ELSE [result |-> "err", msg |-> "Failed to resolve relative path"]
        ELSE normalize_path_components(Path_join(base_dir, import_uri))

\* inputs
ImportUris ==
    { <<"/", "a">>,
      <<"C", ":", "\\", "a">>,
      <<"http", ":", "/", "/", "h", "/", "a">>,
      <<"http", ":", "/", "/", "h">>,
      <<"HTTP", ":", "/", "/", "h", "/", "a">>,
      <<"https", ":", "/", "/", "h", "/", "a", "/", "..", "/", "b">>,
      <<"file", ":", "/", "/", "/", "a">>,
      <<"ftp", ":", "/", "/", "h", "/", "a">>,
      <<"mailto", ":", "a">>,
      <<"x", ":", "a">>,
      <<"a">>,
      <<".", "/", "a">>,
      <<"..", "/", "a">>,
      <<"..", "/", "..", "/", "a">>,
      <<"a", "/", ".", "/", "b">>,
      <<"a", "/", "..", "/", "..", "/", "b">> }

BaseDirs ==
    { <<>>,
      <<"/">>,
      <<"/", "b">>,
      <<"/", "b", "/">>,
      <<"b">>,
      <<"..">>,
      <<"http", ":", "/", "/", "h", "/", "b">>,
      <<"file", ":", "/", "/", "/", "b", "/">>,
      <<"mailto", ":", "b">> }

PathPending == [result |-> "pending"]

PathInit ==
    /\ up_import_uri \in ImportUris
    /\ up_base_dir \in BaseDirs
    /\ up_result = PathPending

\* one call of get_real_path_from_import_uri(up_import_uri, up_base_dir)
Resolve ==
    /\ up_result = PathPending
    /\ up_result' = get_real_path_from_import_uri(up_import_uri, up_base_dir)
    /\ UNCHANGED <<up_import_uri, up_base_dir>>
    /\ UNCHANGED pathOthers

----------------------------------------------------------------------------
(* Graph info: ten_rust/src/graph/graph_info.rs                             *)

\* what the environment does for one call: the outcome of reading and
\* parsing the document at the location, and of Graph's own validation
GraphDocument == [FlatGraphNoConnections(<<InnerC, InnerD>>) EXCEPT
                     !.connections = Some(<<InnerConnection>>)]

GraphReads == { [result |-> "ok", value |-> GraphDocument], [result |-> "err"] }

\* read_file_to_string / the HTTP request, then serde_json::from_str
read_graph(location, env) ==
    IF env.read.result = "ok"
    THEN [result |-> "ok", value |-> env.read.value, loads |-> <<location>>]
    ELSE [result |-> "err", msg |-> "Failed to read graph file", loads |-> <<location>>]

\* load_graph_from_uri(uri, base_dir, &mut None): the result, and the
\* locations it tried to read
load_graph_from_uri(uri, base_dir, env) ==
    LET url == Url_parse(uri)
    IN  IF url.ok
        THEN IF url.scheme \in {"http", "https", "file"}
             THEN read_graph(Url_to_string(url), env)
             ELSE [result |-> "err", msg |-> "Unsupported URL scheme", loads |-> <<>>]
        ELSE IF Path_is_absolute(uri) THEN read_graph(uri, env)
        ELSE IF base_dir = None
        THEN [result |-> "err",
              msg |-> "base_dir cannot be None when uri is a relative path",
              loads |-> <<>>]
        ELSE read_graph(Path_join(Unwrap(base_dir), uri), env)

\* Graph::validate_and_complete_and_flatten(base_dir): the outcome is the
\* environment's; the graph it was given is recorded
Graph_validate_and_complete_and_flatten(g, env) ==
    IF env.validation = "ok"
    THEN [result |-> "ok", graph |-> g, validated |-> Some(g)]
    ELSE [result |-> "err", msg |-> "graph validation failed", graph |-> g, validated |-> Some(g)]

GraphInfo(import_uri, app_base_dir, g) ==
    [name |-> None, auto_start |-> None, graph |-> g, import_uri |-> import_uri,
     app_base_dir |-> app_base_dir, belonging_pkg_type |-> None,
     belonging_pkg_name |-> None]

\* the mutual exclusion checks at the head of the function
exclusion_error(self) ==
    IF self.import_uri = None THEN None
    ELSE IF self.graph.nodes # <<>>
    THEN Some("When 'import_uri' is specified, 'nodes' field must not be present")
    ELSE IF IsSome(self.graph.connections) /\ Unwrap(self.graph.connections) # <<>>
    THEN Some("When 'import_uri' is specified, 'connections' field must not be present")
    ELSE IF IsSome(self.graph.exposed_messages) /\ Unwrap(self.graph.exposed_messages) # <<>>
    THEN Some("When 'import_uri' is specified, 'exposed_messages' field must not be present")
    ELSE IF IsSome(self.graph.exposed_properties) /\ Unwrap(self.graph.exposed_properties) # <<>>
    THEN Some("When 'import_uri' is specified, 'exposed_properties' field must not be present")
    ELSE None

\* the rest of the function: load when import_uri is set, then validate
load_and_validate(self, env) ==
    LET loaded == load_graph_from_uri(Unwrap(self.import_uri), self.app_base_dir, env)
        replaced == [self EXCEPT !.graph = loaded.value]
        target == IF self.import_uri = None THEN self ELSE replaced
        validation == Graph_validate_and_complete_and_flatten(target.graph, env)
        loads == IF self.import_uri = None THEN <<>> ELSE loaded.loads
    IN  IF self.import_uri # None /\ loaded.result = "err"
        THEN [result |-> "err", msg |-> loaded.msg, self |-> self,
              loads |-> loads, validated |-> None]
        ELSE [result |-> validation.result, self |-> [target EXCEPT !.graph = validation.graph],
              loads |-> loads, validated |-> validation.validated]

\* a variant that loads the graph before it looks at the other fields
GraphInfo_validate_loading_first(self, env) ==
    LET r == load_and_validate(self, env)
    IN  IF exclusion_error(self) # None
        THEN [result |-> "err", msg |-> Unwrap(exclusion_error(self)), self |-> self,
              loads |-> r.loads, validated |-> None]
        ELSE r

\* GraphInfo::validate_and_complete_and_flatten(&mut self)
GraphInfo_validate_and_complete_and_flatten(self, env) ==
    IF exclusion_error(self) # None
    THEN [result |-> "err", msg |-> Unwrap(exclusion_error(self)), self |-> self,
          loads |-> <<>>, validated |-> None]
    ELSE load_and_validate(self, env)

\* inputs
GraphInfoUris ==
    { None,
      Some(<<"a">>),
      Some(<<"http", ":", "/", "/", "h">>),
      Some(<<"ftp", ":", "/", "/", "h", "/", "a">>) }

GraphInfoBaseDirs == { None, Some(<<"/", "b">>) }

OptionalLists(x) == { None, Some(<<>>), Some(<<x>>) }

GraphInfoGraphs ==
    { [nodes |-> nodes, connections |-> connections,
       exposed_messages |-> exposed_messages, exposed_properties |-> exposed_properties] :
        nodes \in { <<>>, <<ExtA>> },
        connections \in OptionalLists(InnerConnection),
        exposed_messages \in OptionalLists(Exposed("cmd", "in", "B", Some(<<"a">>))),
        exposed_properties \in OptionalLists([extension |-> Some(<<"a">>), name |-> "p"]) }

GraphInfoEnvs == [read : GraphReads, validation : {"ok", "err"}]

GraphInfoPending == [result |-> "pending"]

GraphInfoInit ==
    /\ gi_info \in { GraphInfo(u, b, g) :
                       u \in GraphInfoUris, b \in GraphInfoBaseDirs, g \in GraphInfoGraphs }
    /\ gi_env \in GraphInfoEnvs
    /\ gi_call = GraphInfoPending

\* one call of gi_info.validate_and_complete_and_flatten()
ValidateGraphInfo ==
    /\ gi_call = GraphInfoPending
    /\ LET r == GraphInfo_validate_and_complete_and_flatten(gi_info, gi_env)
       IN  /\ gi_info' = r.self
           /\ gi_call' = [result |-> r.result, before |-> gi_info,
                          loads |-> r.loads, validated |-> r.validated]
    /\ UNCHANGED gi_env
    /\ UNCHANGED infoOthers

----------------------------------------------------------------------------
(* Interface flattening: ten_rust/src/pkg_info/manifest/interface.rs        *)

MaxImports == 2

ManifestApiInterface(import_uri, base_dir) ==
    [import_uri |-> import_uri, base_dir |-> base_dir]

\* a ManifestApi: `name` stands for its own definitions (property, cmd_in, ...)
ManifestApi(name, interface) == [name |-> name, interface |-> interface]

\* documents /b/x and /b/y, imported under three spellings
DocX == <<"/", "b", "/", "x">>
DocY == <<"/", "b", "/", "y">>
ImportSpellings == { <<"x">>, <<"y">>, <<".", "/", "x">> }

\* the interface entries that occur: in the manifest (base_dir /b), in a
\* document as parsed (no base_dir) and in a loaded document (base_dir /b)
InterfaceEntries ==
    { ManifestApiInterface(u, b) : u \in ImportSpellings, b \in { <<>>, <<"/", "b">> } }

\* get_real_path_from_import_uri(import_uri, base_dir) for every entry
RealPaths ==
    [i \in InterfaceEntries |-> get_real_path_from_import_uri(i.import_uri, i.base_dir)]

\* Path::parent of a path without a trailing separator
Path_parent(p) ==
    LET slashes == { i \in 1..Len(p) : p[i] = "/" }
        k == IF slashes = {} THEN 0 ELSE CHOOSE i \in slashes : \A j \in slashes : j <= i
    IN  IF k = 0 THEN <<>>
        ELSE IF k = 1 THEN <<"/">>
        ELSE SubSeq(p, 1, k - 1)

\* base_url.path_segments_mut().pop(), then base_url.to_string()
Url_without_last_segment(u) ==
    Url_to_string([u EXCEPT !.path = SubSeq(u.path, 1, Len(u.path) - 1)])

\* "for interface in interface.iter_mut() { interface.base_dir = ... }"
with_base_dir(api, base_dir) ==
    IF api.interface = None THEN api
    ELSE [api EXCEPT !.interface =
            Some([i \in 1..Len(Unwrap(api.interface)) |->
                    [Unwrap(api.interface)[i] EXCEPT !.base_dir = base_dir]])]

\* reading and parsing the document at a location
read_interface(location, base_dir, docs, interface_set) ==
    IF location \in DOMAIN docs /\ docs[location] # None
    THEN [result |-> "ok", value |-> with_base_dir(Unwrap(docs[location]), base_dir),
          interface_set |-> interface_set, loads |-> <<location>>]
    ELSE [result |-> "err", msg |-> "Failed to read interface file",
          interface_set |-> interface_set, loads |-> <<location>>]

\* a variant of the loader that never finds a path in the set
load_interface_without_set(interface, interface_set, docs) ==
    LET resolved == RealPaths[interface]
        real_path == resolved.value
        inserted == interface_set \cup {real_path}
    IN  IF resolved.result = "err"
        THEN [result |-> "err", msg |-> resolved.msg,
              interface_set |-> interface_set, loads |-> <<>>]
        ELSE read_interface(real_path, Path_parent(real_path), docs, inserted)

\* load_interface(interface, &mut interface_set): the result, the set after
\* the call and the locations read
load_interface(interface, interface_set, docs) ==
    LET resolved == RealPaths[interface]
        real_path == resolved.value
        inserted == interface_set \cup {real_path}
        url == Url_parse(real_path)
    IN  IF resolved.result = "err"
        THEN [result |-> "err", msg |-> resolved.msg,
              interface_set |-> interface_set, loads |-> <<>>]
        ELSE IF real_path \in interface_set
        THEN [result |-> "err", msg |-> "Circular reference detected",
              interface_set |-> interface_set, loads |-> <<>>]
        ELSE IF url.ok
        THEN IF url.scheme \in {"http", "https"}
             THEN read_interface(real_path, Url_without_last_segment(url), docs, inserted)
             ELSE IF url.scheme = "file"
             THEN read_interface(serialize_path(url.path), Url_without_last_segment(url),
                                 docs, inserted)
             ELSE [result |-> "err", msg |-> "Unsupported URL scheme",
                   interface_set |-> inserted, loads |-> <<>>]
        ELSE read_interface(real_path, Path_parent(real_path), docs, inserted)


has_interfaces(api) == api.interface # None /\ Unwrap(api.interface) # <<>>

\* inputs: the manifest imports under every spelling, document x imports y
\* and itself (as "./x"), document y imports x and itself
InterfaceLists(base_dir, spellings) ==
    UNION { [1..n -> { ManifestApiInterface(u, base_dir) : u \in spellings }] :
              n \in 0..MaxImports }

InterfaceFields(base_dir, spellings) ==
    {None} \cup { Some(l) : l \in InterfaceLists(base_dir, spellings) }

IfaceWorlds ==
    { [p \in {DocX, DocY} |-> IF p = DocX THEN Some(ManifestApi("x", ix)) ELSE dy] :
        ix \in InterfaceFields(<<>>, { <<"y">>, <<".", "/", "x">> }),
        dy \in {None} \cup { Some(ManifestApi("y", iy)) :
                                iy \in InterfaceFields(<<>>, { <<"x">>, <<"y">> }) } }

IfacePending == [result |-> "pending"]

IfaceInit ==
    /\ if_api \in { ManifestApi("manifest", i) : i \in InterfaceFields(<<"/", "b">>, ImportSpellings) }
    /\ if_docs \in IfaceWorlds
    /\ if_pc = "start"
    /\ if_stack = <<>>
    /\ if_set = {}
    /\ if_loads = <<>>
    /\ if_flattened = <<>>
    /\ if_result = IfacePending

\* ManifestApi::flatten up to the first load: Ok(None) without interfaces,
\* otherwise flatten_internal pushes self and starts on its interfaces
FlattenEnter ==
    /\ if_pc = "start"
    /\ IF ~has_interfaces(if_api)
       THEN /\ if_result' = [result |-> "ok", value |-> None]
            /\ if_pc' = "done"
            /\ UNCHANGED <<if_stack, if_flattened>>
       ELSE /\ if_flattened' = <<if_api>>
            /\ if_stack' = <<[api |-> if_api, idx |-> 1]>>
            /\ if_pc' = "run"
            /\ UNCHANGED if_result
    /\ UNCHANGED <<if_api, if_docs, if_set, if_loads>>
    /\ UNCHANGED ifaceOthers

\* one iteration of the loop of flatten_internal: load the next interface of
\* the innermost call and enter flatten_internal for the loaded api
LoadNext ==
    /\ if_pc = "run"
    /\ LET top == if_stack[Len(if_stack)]
           below == SubSeq(if_stack, 1, Len(if_stack) - 1)
       IN  /\ top.idx <= Len(Unwrap(top.api.interface))
           /\ LET r == load_interface(Unwrap(top.api.interface)[top.idx], if_set, if_docs)
                  advanced == Append(below, [top EXCEPT !.idx = top.idx + 1])
              IN  /\ if_set' = r.interface_set
                  /\ if_loads' = if_loads \o r.loads
                  /\ IF r.result = "err"
                     THEN /\ if_result' = [result |-> "err", msg |-> r.msg]
                          /\ if_pc' = "done"
                          /\ UNCHANGED <<if_stack, if_flattened>>
                     ELSE /\ if_flattened' = Append(if_flattened, r.value)
                          /\ if_stack' = IF has_interfaces(r.value)
                                         THEN Append(advanced, [api |-> r.value, idx |-> 1])
                                         ELSE advanced
                          /\ UNCHANGED <<if_result, if_pc>>
    /\ UNCHANGED <<if_api, if_docs>>
    /\ UNCHANGED ifaceOthers

\* the innermost flatten_internal has gone through its interfaces and
\* returns Ok(()); when it is the outermost one, flatten goes on to merge
ReturnOk ==
    /\ if_pc = "run"
    /\ LET top == if_stack[Len(if_stack)]
       IN  top.idx > Len(Unwrap(top.api.interface))
    /\ if_stack' = SubSeq(if_stack, 1, Len(if_stack) - 1)
    /\ IF Len(if_stack) = 1
       THEN /\ if_result' = [result |-> "err", msg |-> "Not implemented"]
            /\ if_pc' = "done"
       ELSE UNCHANGED <<if_result, if_pc>>
    /\ UNCHANGED <<if_api, if_docs, if_set, if_loads, if_flattened>>
    /\ UNCHANGED ifaceOthers

----------------------------------------------------------------------------
(* File watcher: ten_manager/src/fs/file_watcher.rs                         *)
(* The files are numbered in the order of their creation (dev and ino); a   *)
(* chunk of content is the file and the positions it was read from. Time is *)
(* counted in waits of options.check_interval.                              *)

MaxLen == 2            \* bytes appended to one file
MaxFiles == 2          \* files ever created at the path
MaxFaults == 1         \* input/output errors
MaxStops == 2          \* calls of stop()
ChannelCapacity == 1   \* mpsc::channel(32), scaled down
BufferSize == 1        \* options.buffer_size
Timeout == 1           \* options.timeout, in check intervals

\* an elapsed time: counted up to the first value beyond the timeout
later(t) == IF t > Timeout THEN t ELSE t + 1

\* the file at the path, if any, and its length
path_exists(fs) == fs.cur # 0

\* same_file_metadata (unix): the same dev and ino
same_file_metadata(a, b) == a = b

\* file.read(&mut buffer) at a position of an open file: the number of bytes
bytes_read(fs, id, position) ==
    IF fs.len[id] - position >= BufferSize THEN BufferSize
    ELSE IF fs.len[id] > position THEN fs.len[id] - position
    ELSE 0

TaskStart ==
    [pc |-> "outer", last_position |-> 0, last_metadata |-> None,
     eof_reached |-> FALSE, eof_time |-> None, file |-> 0, sending |-> None]

\* stop_rx.try_recv().is_ok()
stop_received == fw_stream.stop_sent

\* the task has returned: content_tx and stop_rx are dropped
task_break(task) == [task EXCEPT !.pc = "done", !.sending = None]

\* the environment: the file grows, is removed, and a new file appears at
\* the path (a rotation when one is there)
AppendBytes ==
    /\ path_exists(fw_fs)
    /\ fw_fs.len[fw_fs.cur] < MaxLen
    /\ fw_fs' = [fw_fs EXCEPT !.len[fw_fs.cur] = @ + 1]
    /\ UNCHANGED <<fw_task, fw_chan, fw_stream>>
    /\ UNCHANGED watchOthers

RemoveFile ==
    /\ path_exists(fw_fs)
    /\ fw_fs' = [fw_fs EXCEPT !.cur = 0]
    /\ UNCHANGED <<fw_task, fw_chan, fw_stream>>
    /\ UNCHANGED watchOthers

CreateFile ==
    /\ fw_fs.created < MaxFiles
    /\ fw_fs' = [fw_fs EXCEPT !.cur = fw_fs.created + 1, !.created = @ + 1]
    /\ UNCHANGED <<fw_task, fw_chan, fw_stream>>
    /\ UNCHANGED watchOthers

\* watch_file: an error when the path does not exist, otherwise the
\* channels are created and the task is spawned
WatchFile ==
    /\ fw_stream.state = "none"
    /\ IF ~path_exists(fw_fs)
       THEN /\ fw_stream' = [fw_stream EXCEPT !.state = "error"]
            /\ UNCHANGED fw_task
       ELSE /\ fw_stream' = [fw_stream EXCEPT !.state = "open", !.stop_tx = TRUE]
            /\ fw_task' = TaskStart
    /\ UNCHANGED <<fw_fs, fw_chan>>
    /\ UNCHANGED watchOthers

\* OpenFile that starts from the beginning of the file at every reopen
OpenFile_from_start ==
    /\ fw_task.pc = "outer"
    /\ IF stop_received
       THEN fw_task' = task_break(fw_task)
       ELSE IF path_exists(fw_fs)
       THEN fw_task' = [fw_task EXCEPT !.pc = "read", !.file = fw_fs.cur,
                                       !.last_metadata = Some(fw_fs.cur),
                                       !.last_position = 0,
                                       !.eof_reached = FALSE,
                                       !.eof_time = None]
       ELSE fw_task' = [fw_task EXCEPT !.pc = "wait_missing"]
    /\ UNCHANGED <<fw_fs, fw_chan, fw_stream>>
    /\ UNCHANGED watchOthers

\* top of the outer loop: the stop check, File::open, metadata, rotation
\* check and seek
OpenFile ==
    /\ fw_task.pc = "outer"
    /\ IF stop_received
       THEN fw_task' = task_break(fw_task)
       ELSE IF path_exists(fw_fs)
       THEN LET metadata == fw_fs.cur
                file_rotated == /\ fw_task.last_metadata # None
                                /\ ~same_file_metadata(Unwrap(fw_task.last_metadata), metadata)
            IN  fw_task' = IF file_rotated
                           THEN [fw_task EXCEPT !.pc = "read", !.file = metadata,
                                                !.last_metadata = Some(metadata),
                                                !.last_position = 0,
                                                !.eof_reached = FALSE,
                                                !.eof_time = None]
                           ELSE [fw_task EXCEPT !.pc = "read", !.file = metadata,
                                                !.last_metadata = Some(metadata)]
       ELSE fw_task' = [fw_task EXCEPT !.pc = "wait_missing"]
    /\ UNCHANGED <<fw_fs, fw_chan, fw_stream>>
    /\ UNCHANGED watchOthers

\* File::open, file.metadata() or file.seek() fails on a path that exists:
\* the error is to be sent, then the task returns
OpenFails ==
    /\ fw_task.pc = "outer"
    /\ ~stop_received
    /\ path_exists(fw_fs)
    /\ fw_fs.faults < MaxFaults
    /\ fw_fs' = [fw_fs EXCEPT !.faults = @ + 1]
    /\ fw_task' = [fw_task EXCEPT !.pc = "send_error", !.sending = Some([error |-> TRUE])]
    /\ UNCHANGED <<fw_chan, fw_stream>>
    /\ UNCHANGED watchOthers

\* top of the inner loop: the stop check and file.read
ReadFile ==
    /\ fw_task.pc = "read"
    /\ LET n == bytes_read(fw_fs, fw_task.file, fw_task.last_position)
           eof_time == IF fw_task.eof_reached THEN fw_task.eof_time ELSE Some(0)
       IN  fw_task' =
             IF stop_received THEN task_break(fw_task)
             ELSE IF n = 0
             THEN IF eof_time # None /\ Unwrap(eof_time) > Timeout
                  THEN task_break([fw_task EXCEPT !.eof_reached = TRUE, !.eof_time = eof_time])
                  ELSE [fw_task EXCEPT !.pc = "wait_eof", !.eof_reached = TRUE,
                                       !.eof_time = eof_time]
             ELSE [fw_task EXCEPT !.pc = "send_data",
                                  !.eof_reached = FALSE, !.eof_time = None,
                                  !.last_position = @ + n,
                                  !.sending = Some([error |-> FALSE, file |-> fw_task.file,
                                                    from |-> fw_task.last_position,
                                                    len |-> n])]
    /\ UNCHANGED <<fw_fs, fw_chan, fw_stream>>
    /\ UNCHANGED watchOthers

\* file.read fails with an error other than Interrupted
ReadFails ==
    /\ fw_task.pc = "read"
    /\ ~stop_received
    /\ fw_fs.faults < MaxFaults
    /\ fw_fs' = [fw_fs EXCEPT !.faults = @ + 1]
    /\ fw_task' = [fw_task EXCEPT !.pc = "send_error", !.sending = Some([error |-> TRUE])]
    /\ UNCHANGED <<fw_chan, fw_stream>>
    /\ UNCHANGED watchOthers

\* content_tx.send(..).await returns: Err when the receiver is dropped,
\* otherwise Ok once the channel has room
SendContent ==
    /\ fw_task.pc \in {"send_data", "send_error"}
    /\ IF fw_stream.dropped
       THEN /\ fw_task' = task_break(fw_task)
            /\ UNCHANGED fw_chan
       ELSE /\ Len(fw_chan) < ChannelCapacity
            /\ fw_chan' = Append(fw_chan, Unwrap(fw_task.sending))
            /\ fw_task' = IF fw_task.pc = "send_data"
                          THEN [fw_task EXCEPT !.pc = "read", !.sending = None]
                          ELSE task_break(fw_task)
    /\ UNCHANGED <<fw_fs, fw_stream>>
    /\ UNCHANGED watchOthers

\* time::timeout(options.check_interval, &mut stop_rx) returns because stop
\* was received
WaitStopped ==
    /\ fw_task.pc \in {"wait_eof", "wait_missing"}
    /\ stop_received
    /\ fw_task' = task_break(fw_task)
    /\ UNCHANGED <<fw_fs, fw_chan, fw_stream>>
    /\ UNCHANGED watchOthers

\* ... or because check_interval has elapsed: back to the outer loop
WaitElapsed ==
    /\ fw_task.pc \in {"wait_eof", "wait_missing"}
    /\ ~stop_received
    /\ fw_task' = [fw_task EXCEPT !.pc = "outer",
                                  !.eof_time = IF @ = None THEN None ELSE Some(later(Unwrap(@)))]
    /\ UNCHANGED <<fw_fs, fw_chan, fw_stream>>
    /\ UNCHANGED watchOthers

\* FileContentStream::stop
stream_stop(stream) ==
    IF stream.stop_tx
    THEN [stream EXCEPT !.stop_tx = FALSE, !.stop_sent = TRUE]
    ELSE stream

\* a variant of stop that does not take the sender
stream_stop_again(stream) ==
    [stream EXCEPT !.stop_sent = ~stream.stop_sent]

Stop ==
    /\ fw_stream.state = "open"
    /\ ~fw_stream.dropped
    /\ fw_stream.stops < MaxStops
    /\ fw_stream' = [stream_stop(fw_stream) EXCEPT !.stops = @ + 1]
    /\ UNCHANGED <<fw_fs, fw_task, fw_chan>>
    /\ UNCHANGED watchOthers

\* Drop for FileContentStream: stop, then content_rx is dropped
DropStream ==
    /\ fw_stream.state = "open"
    /\ ~fw_stream.dropped
    /\ fw_stream' = [stream_stop(fw_stream) EXCEPT !.dropped = TRUE]
    /\ fw_chan' = <<>>
    /\ UNCHANGED <<fw_fs, fw_task>>
    /\ UNCHANGED watchOthers

\* FileContentStream::next returns: a queued item, or None when the channel
\* is empty and the task has dropped content_tx; delivered lists the items
\* returned so far
NextItem ==
    /\ fw_stream.state = "open"
    /\ ~fw_stream.dropped
    /\ ~fw_stream.ended
    /\ IF fw_chan # <<>>
       THEN /\ fw_chan' = Tail(fw_chan)
            /\ fw_stream' = [fw_stream EXCEPT !.delivered = Append(@, Head(fw_chan))]
       ELSE /\ fw_task.pc = "done"
            /\ fw_stream' = [fw_stream EXCEPT !.ended = TRUE]
            /\ UNCHANGED fw_chan
    /\ UNCHANGED <<fw_fs, fw_task>>
    /\ UNCHANGED watchOthers

WatchInit ==
    /\ fw_fs = [cur |-> 1, created |-> 1, len |-> [i \in 1..MaxFiles |-> 0], faults |-> 0]
    /\ fw_task = [TaskStart EXCEPT !.pc = "unspawned"]
    /\ fw_chan = <<>>
    /\ fw_stream = [state |-> "none", stop_tx |-> FALSE, stop_sent |-> FALSE,
                    dropped |-> FALSE, ended |-> FALSE, stops |-> 0,
                    delivered |-> <<>>]

\* the steps of watch_file_task
TaskStep ==
    \/ OpenFile
    \/ OpenFails
    \/ ReadFile
    \/ ReadFails
    \/ SendContent
    \/ WaitStopped
    \/ WaitElapsed

----------------------------------------------------------------------------
(* Metrics: ten_rust/src/service_hub/telemetry/metrics.rs                   *)
(* An f64 value is an integer here; a C string pointer is NullPtr or a      *)
(* string, "\\xff" standing for bytes that are not UTF-8; a handle pointer   *)
(* is None when null; a null array is the empty list.  mt_gauge holds,     *)
(* for the up-down counter named by the handle, the sum the meter keeps for *)
(* each attribute set.                                                      *)

NullPtr == "null"

InvalidUtf8 == "\\xff"

\* CStr::from_ptr(p).to_str().is_ok()
to_str_ok(p) == p # InvalidUtf8

\* ten_metric_create: the handle returned, null for a null or non-UTF-8
\* name and for an unknown metric type
ten_metric_create(metric_type, name, label_names) ==
    IF name = NullPtr THEN None
    ELSE IF ~to_str_ok(name) THEN None
    ELSE IF metric_type \notin {0, 1, 2} THEN None
    ELSE Some([name |-> name,
          metric_type |-> CASE metric_type = 0 -> "Counter"
                            [] metric_type = 1 -> "Gauge"
                            [] OTHER -> "Histogram",
          label_names |-> SelectSeq(label_names,
                                    LAMBDA p : p # NullPtr /\ to_str_ok(p))])

\* the attributes built from the label values: the i-th value, when it is
\* not null and is UTF-8, paired with the i-th label name, when there is one
RECURSIVE label_attributes(_, _, _)
label_attributes(metric, label_values, i) ==
    IF i > Len(label_values) THEN <<>>
    ELSE IF /\ label_values[i] # NullPtr
            /\ i <= Len(metric.label_names)
            /\ to_str_ok(label_values[i])
         THEN <<[key |-> metric.label_names[i], value |-> label_values[i]]>>
              \o label_attributes(metric, label_values, i + 1)
         ELSE label_attributes(metric, label_values, i + 1)

\* the attribute set a measurement is aggregated under
AttributeSet(attributes) == Range(attributes)

\* UpDownCounter::add: the sum kept for the attribute set grows by value
up_down_counter_add(gauge, value, attributes) ==
    [gauge EXCEPT ![AttributeSet(attributes)] = @ + value]

ten_metric_gauge_set(metric_ptr, value, label_values, gauge) ==
    IF metric_ptr = None THEN gauge
    ELSE up_down_counter_add(gauge, value,
                             label_attributes(Unwrap(metric_ptr), label_values, 1))

\* the label values are not used (TODO: Support labels)
ten_metric_gauge_add(metric_ptr, value, label_values, gauge) ==
    IF metric_ptr = None THEN gauge
    ELSE up_down_counter_add(gauge, value, <<>>)

ten_metric_gauge_inc(metric_ptr, label_values, gauge) ==
    ten_metric_gauge_add(metric_ptr, 1, label_values, gauge)

ten_metric_gauge_sub(metric_ptr, value, label_values, gauge) ==
    ten_metric_gauge_add(metric_ptr, 0 - value, label_values, gauge)

ten_metric_gauge_dec(metric_ptr, label_values, gauge) ==
    ten_metric_gauge_sub(metric_ptr, 1, label_values, gauge)

(* Bounds and inputs of the metrics *)

MaxMetricCalls == 3

MetricValues == {0, 1, 2}

MetricTypes == {1, 7}

MetricNames == {NullPtr, "g"}

LabelNameLists == {<<"k">>}

LabelValueLists == {<<>>, <<"a">>, <<"b">>, <<NullPtr>>, <<InvalidUtf8>>,
                    <<"a", "b">>}

AttributeSets ==
    {{}} \cup {{[key |-> "k", value |-> v]} : v \in {"a", "b"}}

NoMetricCall == [op |-> "none"]

MetricInit ==
    /\ mt_handle = None
    /\ mt_gauge = [a \in AttributeSets |-> 0]
    /\ mt_last = NoMetricCall
    /\ mt_calls = 0

MetricIdle == MetricInit

\* the record of a call: the operation, the handle, the value, the
\* attribute set gauge_set aims at, and the sums before the call
MetricCall(op, value, label_values) ==
    [op |-> op, metric_ptr |-> mt_handle, value |-> value,
     attributes |-> IF mt_handle = None THEN {}
                    ELSE AttributeSet(label_attributes(Unwrap(mt_handle),
                                                       label_values, 1)),
     before |-> mt_gauge]

MetricCreate ==
    /\ mt_handle = None
    /\ mt_last.op # "create"
    /\ \E metric_type \in MetricTypes, name \in MetricNames,
          label_names \in LabelNameLists :
          mt_handle' = ten_metric_create(metric_type, name, label_names)
    /\ mt_last' = [op |-> "create"]
    /\ UNCHANGED <<mt_gauge, mt_calls>>
    /\ UNCHANGED metricOthers

GaugeSet ==
    /\ mt_calls < MaxMetricCalls
    /\ \E value \in MetricValues, label_values \in LabelValueLists :
          /\ mt_gauge' = ten_metric_gauge_set(mt_handle, value, label_values,
                                              mt_gauge)
          /\ mt_last' = MetricCall("gauge_set", value, label_values)
    /\ mt_calls' = mt_calls + 1
    /\ UNCHANGED mt_handle
    /\ UNCHANGED metricOthers

GaugeAdd ==
    /\ mt_calls < MaxMetricCalls
    /\ \E value \in MetricValues, label_values \in LabelValueLists :
          /\ mt_gauge' = ten_metric_gauge_add(mt_handle, value, label_values,
                                              mt_gauge)
          /\ mt_last' = MetricCall("gauge_add", value, label_values)
    /\ mt_calls' = mt_calls + 1
    /\ UNCHANGED mt_handle
    /\ UNCHANGED metricOthers

GaugeInc ==
    /\ mt_calls < MaxMetricCalls
    /\ \E label_values \in LabelValueLists :
          /\ mt_gauge' = ten_metric_gauge_inc(mt_handle, label_values, mt_gauge)
          /\ mt_last' = MetricCall("gauge_inc", 1, label_values)
    /\ mt_calls' = mt_calls + 1
    /\ UNCHANGED mt_handle
    /\ UNCHANGED metricOthers

GaugeDec ==
    /\ mt_calls < MaxMetricCalls
    /\ \E label_values \in LabelValueLists :
          /\ mt_gauge' = ten_metric_gauge_dec(mt_handle, label_values, mt_gauge)
          /\ mt_last' = MetricCall("gauge_dec", 1, label_values)
    /\ mt_calls' = mt_calls + 1
    /\ UNCHANGED mt_handle
    /\ UNCHANGED metricOthers

GaugeSub ==
    /\ mt_calls < MaxMetricCalls
    /\ \E value \in MetricValues, label_values \in LabelValueLists :
          /\ mt_gauge' = ten_metric_gauge_sub(mt_handle, value, label_values,
                                              mt_gauge)
          /\ mt_last' = MetricCall("gauge_sub", value, label_values)
    /\ mt_calls' = mt_calls + 1
    /\ UNCHANGED mt_handle
    /\ UNCHANGED metricOthers

----------------------------------------------------------------------------
(* Specifications *)

RevIdle ==
    /\ rv_graph = <<>>
    /\ rv_result = RevPending

FlatIdle ==
    /\ fl_graph = FlatGraphNoConnections(<<>>)
    /\ fl_loader = Loader(LoadError, LoadError)
    /\ fl_result = FlatPending
    /\ fl_calls = <<>>
    /\ fl_again = FlatPending

RefsIdle ==
    /\ rf_graph = FlatGraphNoConnections(<<>>)
    /\ rf_result = RefsPending

NodeIdle ==
    /\ nv_node = SubgraphNode("sg", None, "u1")
    /\ nv_state = "NoneDeclared"
    /\ nv_result = NodePending

PathIdle ==
    /\ up_import_uri = <<>>
    /\ up_base_dir = <<>>
    /\ up_result = PathPending

InfoIdle ==
    /\ gi_info = GraphInfo(None, None, FlatGraphNoConnections(<<>>))
    /\ gi_env = [read |-> [result |-> "err"], validation |-> "err"]
    /\ gi_call = GraphInfoPending

IfaceIdle ==
    /\ if_api = ManifestApi("manifest", None)
    /\ if_docs = [p \in {DocX, DocY} |-> None]
    /\ if_pc = "start"
    /\ if_stack = <<>>
    /\ if_set = {}
    /\ if_loads = <<>>
    /\ if_flattened = <<>>
    /\ if_result = IfacePending

WatchIdle == WatchInit

\* every subsystem but one at rest
addOthersIdle == RevIdle /\ FlatIdle /\ RefsIdle /\ NodeIdle /\ PathIdle /\ InfoIdle /\ IfaceIdle /\ WatchIdle /\ MetricIdle
revOthersIdle == AddIdle /\ FlatIdle /\ RefsIdle /\ NodeIdle /\ PathIdle /\ InfoIdle /\ IfaceIdle /\ WatchIdle /\ MetricIdle
flatOthersIdle == AddIdle /\ RevIdle /\ RefsIdle /\ NodeIdle /\ PathIdle /\ InfoIdle /\ IfaceIdle /\ WatchIdle /\ MetricIdle
refsOthersIdle == AddIdle /\ RevIdle /\ FlatIdle /\ NodeIdle /\ PathIdle /\ InfoIdle /\ IfaceIdle /\ WatchIdle /\ MetricIdle
nodeOthersIdle == AddIdle /\ RevIdle /\ FlatIdle /\ RefsIdle /\ PathIdle /\ InfoIdle /\ IfaceIdle /\ WatchIdle /\ MetricIdle
pathOthersIdle == AddIdle /\ RevIdle /\ FlatIdle /\ RefsIdle /\ NodeIdle /\ InfoIdle /\ IfaceIdle /\ WatchIdle /\ MetricIdle
infoOthersIdle == AddIdle /\ RevIdle /\ FlatIdle /\ RefsIdle /\ NodeIdle /\ PathIdle /\ IfaceIdle /\ WatchIdle /\ MetricIdle
ifaceOthersIdle == AddIdle /\ RevIdle /\ FlatIdle /\ RefsIdle /\ NodeIdle /\ PathIdle /\ InfoIdle /\ WatchIdle /\ MetricIdle
watchOthersIdle == AddIdle /\ RevIdle /\ FlatIdle /\ RefsIdle /\ NodeIdle /\ PathIdle /\ InfoIdle /\ IfaceIdle /\ MetricIdle
metricOthersIdle == AddIdle /\ RevIdle /\ FlatIdle /\ RefsIdle /\ NodeIdle /\ PathIdle /\ InfoIdle /\ IfaceIdle /\ WatchIdle

InitAdd == AddInit /\ addOthersIdle

NextAdd == AddConnection

SpecAdd == InitAdd /\ [][NextAdd]_vars

InitRev == RevInit /\ revOthersIdle

NextRev == Convert

SpecRev == InitRev /\ [][NextRev]_vars

InitRevMerge == RevMergeInit /\ revOthersIdle

SpecRevMerge == InitRevMerge /\ [][NextRev]_vars

InitFlat == FlatInit /\ flatOthersIdle

NextFlat == Flatten \/ FlattenAgain

SpecFlat == InitFlat /\ [][NextFlat]_vars

InitRefs == RefsInit /\ refsOthersIdle

NextRefs == CheckReferences

SpecRefs == InitRefs /\ [][NextRefs]_vars

InitNode == NodeInit /\ nodeOthersIdle

NextNode == ValidateNode

SpecNode == InitNode /\ [][NextNode]_vars

InitPath == PathInit /\ pathOthersIdle

NextPath == Resolve

SpecPath == InitPath /\ [][NextPath]_vars

InitInfo == GraphInfoInit /\ infoOthersIdle

NextInfo == ValidateGraphInfo

SpecInfo == InitInfo /\ [][NextInfo]_vars

InitIface == IfaceInit /\ ifaceOthersIdle

NextIface == FlattenEnter \/ LoadNext \/ ReturnOk

SpecIface == InitIface /\ [][NextIface]_vars

\* flatten is a sequential computation: a call that can take a step takes it
FairIface == SpecIface /\ WF_vars(NextIface)

InitWatch == WatchInit /\ watchOthersIdle

NextWatch ==
    \/ AppendBytes
    \/ RemoveFile
    \/ CreateFile
    \/ WatchFile
    \/ TaskStep
    \/ Stop
    \/ DropStream
    \/ NextItem

SpecWatch == InitWatch /\ [][NextWatch]_vars

\* the runtime runs the spawned task whenever it can take a step, and a
\* wait of check_interval ends; nothing is assumed of the caller and the file
FairWatch == SpecWatch /\ WF_vars(TaskStep)

\* the same with a caller that keeps calling next() while items are queued
FairWatchReceiving == FairWatch /\ WF_vars(NextItem)

InitMetric == MetricInit /\ metricOthersIdle

NextMetric ==
    MetricCreate \/ GaugeSet \/ GaugeAdd \/ GaugeInc \/ GaugeDec \/ GaugeSub

SpecMetric == InitMetric /\ [][NextMetric]_vars

----------------------------------------------------------------------------
(* Claims about the graph mutator, checked under SpecAdd *)

\* C1 (rollback): whenever graph_add_connection returns an error, the graph
\* is equal, field for field, to its value before the call; connections
\* being absent is not the same as connections being an empty list.
C1_Rollback ==
    last.result = "err" => graph = last.before

SameArgs(l1, l2) ==
    /\ l1.src = l2.src
    /\ l1.dest = l2.dest
    /\ l1.msg_type = l2.msg_type
    /\ l1.msg_name = l2.msg_name
    /\ l1.msg_conversion = l2.msg_conversion

\* C2 (duplicate rejection): when a call with a non-empty msg_name list
\* succeeded, the immediately following call with the same arguments returns
\* an error and leaves the graph as it was after the first call.
C2_DuplicateRejected ==
    [][ ( /\ last.result = "ok"
          /\ calls' = calls + 1
          /\ last.msg_name # <<>>
          /\ SameArgs(last, last') )
        => (last'.result = "err" /\ graph' = graph) ]_vars

\* the flow that a successful call with the arguments recorded in l asks for
\* is present in g: a connection rooted at src whose collection for msg_type
\* holds a flow with the requested name(s) and dest with its conversion
HasRequestedFlow(g, l) ==
    /\ IsSome(g.connections)
    /\ \E c \in 1..Len(Unwrap(g.connections)) :
         LET conn == Unwrap(g.connections)[c]
             coll == FlowsOf(conn, l.msg_type)
         IN /\ conn.loc = l.src
            /\ IsSome(coll)
            /\ \E f \in 1..Len(Unwrap(coll)) :
                 LET flow == Unwrap(coll)[f]
                 IN /\ IF Len(l.msg_name) = 1
                       THEN flow.name = Some(l.msg_name[1]) /\ flow.names = None
                       ELSE flow.name = None /\ flow.names = Some(l.msg_name)
                    /\ \E d \in 1..Len(flow.dest) :
                         flow.dest[d] = [loc |-> l.dest,
                                         msg_conversion |-> l.msg_conversion]

\* C3 (success postcondition): whenever graph_add_connection returns Ok, the
\* resulting graph has a connection rooted at src whose flow list for
\* msg_type contains a flow carrying exactly the requested name(s) with dest
\* and the given msg_conversion among its destinations.
C3_SuccessPostcondition ==
    last.result = "ok" => HasRequestedFlow(graph, last)

----------------------------------------------------------------------------
(* Claims about the reverse-connection normalizer, checked under SpecRev *)

\* the connections of a graph, none when the field is absent
ConnsOf(g) == IF g.connections = None THEN <<>> ELSE Unwrap(g.connections)

\* the flows of collection t of a connection, none when the field is absent
FlowSeq(conn, t) ==
    IF FlowsOf(conn, t) = None THEN <<>> ELSE Unwrap(FlowsOf(conn, t))

\* the reversed flows of a graph: <<c, t, f>> with a non-empty source list
ReversedFlows(g) ==
    UNION { { <<c, t, f>> : f \in { k \in 1..Len(FlowSeq(ConnsOf(g)[c], t)) :
                                      FlowSeq(ConnsOf(g)[c], t)[k].source # <<>> } } :
              c \in 1..Len(ConnsOf(g)), t \in MsgTypes }

RevDone == rv_result.status = "ok"

\* C4 (reverse to forward): for every connection with origin L, every flow F
\* of category X with a non-empty source list and every source S of F, the
\* returned graph has a connection with origin S.loc whose category X holds a
\* flow named F.name with an empty source list and L as a destination that
\* carries no msg_conversion.
C4_ReverseToForward ==
    RevDone =>
      \A x \in ReversedFlows(rv_graph) :
        LET conn == ConnsOf(rv_graph)[x[1]]
            F == FlowSeq(conn, x[2])[x[3]]
        IN /\ IsSome(rv_result.value)
           /\ \A k \in 1..Len(F.source) :
                \E o \in 1..Len(ConnsOf(Unwrap(rv_result.value))) :
                  LET out == ConnsOf(Unwrap(rv_result.value))[o]
                  IN /\ out.loc = F.source[k].loc
                     /\ \E g \in 1..Len(FlowSeq(out, x[2])) :
                          LET G == FlowSeq(out, x[2])[g]
                          IN /\ G.name = F.name
                             /\ G.source = <<>>
                             /\ \E d \in 1..Len(G.dest) :
                                  G.dest[d] = [loc |-> conn.loc,
                                               msg_conversion |-> None]

\* a graph with a reversed flow in a collection other than cmd was converted
C4_Witness ==
    /\ RevDone
    /\ \E x \in ReversedFlows(rv_graph) : x[2] = "audio_frame"
    /\ IsSome(rv_result.value)

\* C5 (a flow with destinations and sources keeps its destinations): the
\* original connection is still present in the returned graph and carries
\* the flow's destinations with the source list removed; one connection
\* holding one flow with two destinations and two distinct sources yields
\* three connections.
C5_KeepsDestinations ==
    RevDone =>
      /\ \A x \in ReversedFlows(rv_graph) :
           LET conn == ConnsOf(rv_graph)[x[1]]
               F == FlowSeq(conn, x[2])[x[3]]
           IN F.dest # <<>> =>
                /\ IsSome(rv_result.value)
                /\ \E o \in 1..Len(ConnsOf(Unwrap(rv_result.value))) :
                     LET out == ConnsOf(Unwrap(rv_result.value))[o]
                     IN /\ out.loc = conn.loc
                        /\ \E g \in 1..Len(FlowSeq(out, x[2])) :
                             /\ FlowSeq(out, x[2])[g].name = F.name
                             /\ FlowSeq(out, x[2])[g].dest = F.dest
                             /\ FlowSeq(out, x[2])[g].source = <<>>
      /\ ( /\ Len(ConnsOf(rv_graph)) = 1
           /\ \E t \in MsgTypes :
                /\ Len(FlowSeq(ConnsOf(rv_graph)[1], t)) = 1
                /\ Len(FlowSeq(ConnsOf(rv_graph)[1], t)[1].dest) = 2
                /\ Len(FlowSeq(ConnsOf(rv_graph)[1], t)[1].source) = 2
                /\ FlowSeq(ConnsOf(rv_graph)[1], t)[1].source[1]
                      # FlowSeq(ConnsOf(rv_graph)[1], t)[1].source[2]
                /\ \A u \in MsgTypes \ {t} :
                      FlowSeq(ConnsOf(rv_graph)[1], u) = <<>> )
         => Len(ConnsOf(Unwrap(rv_result.value))) = 3

\* the declarations of source S by reversed flows named name in category t:
\* <<c, f, k>> = connection, flow and source index
Declarations(g, S, t, name) ==
    { y \in (1..Len(ConnsOf(g))) \X (1..MaxFlows + 1) \X (1..2) :
         /\ y[2] <= Len(FlowSeq(ConnsOf(g)[y[1]], t))
         /\ FlowSeq(ConnsOf(g)[y[1]], t)[y[2]].name = name
         /\ y[3] <= Len(FlowSeq(ConnsOf(g)[y[1]], t)[y[2]].source)
         /\ FlowSeq(ConnsOf(g)[y[1]], t)[y[2]].source[y[3]].loc = S }

RevNames == {"hello", "bye"}

RevLocs == {RevA, RevB, RevC}

\* C6 (duplicate reverse merge): when several reversed flows of one category
\* and one name declare the same source S, all on connections with the same
\* origin L (and S itself has no forward flow of that name), the returned
\* graph has exactly one connection rooted at S, carrying exactly one flow of
\* that name, with exactly one destination, L.
C6_DuplicateReverseMerge ==
    RevDone =>
      \A S \in RevLocs, L \in RevLocs, t \in MsgTypes, name \in RevNames :
        ( /\ Cardinality(Declarations(rv_graph, S, t, name)) >= 2
          /\ \A y \in Declarations(rv_graph, S, t, name) :
                ConnsOf(rv_graph)[y[1]].loc = L
          /\ \A c \in 1..Len(ConnsOf(rv_graph)) :
                ConnsOf(rv_graph)[c].loc = S =>
                   \A f \in 1..Len(FlowSeq(ConnsOf(rv_graph)[c], t)) :
                      \/ FlowSeq(ConnsOf(rv_graph)[c], t)[f].name # name
                      \/ FlowSeq(ConnsOf(rv_graph)[c], t)[f].source # <<>> )
        => /\ IsSome(rv_result.value)
           /\ LET outs == ConnsOf(Unwrap(rv_result.value))
                  rooted == {o \in 1..Len(outs) : outs[o].loc = S}
              IN /\ Cardinality(rooted) = 1
                 /\ \A o \in rooted :
                      LET named == {g \in 1..Len(FlowSeq(outs[o], t)) :
                                       FlowSeq(outs[o], t)[g].name = name}
                      IN /\ Cardinality(named) = 1
                         /\ \A g \in named :
                              FlowSeq(outs[o], t)[g].dest =
                                 << [loc |-> L, msg_conversion |-> None] >>

\* no flow of any collection of any connection has a non-empty source list
NoReversedFlow(g) == ReversedFlows(g) = {}

\* C7 (reverse-normalization stability): for every graph in which no flow has
\* a non-empty source list, graphs without connections included, the
\* normalizer returns Ok(None).
C7_Stability ==
    (RevDone /\ NoReversedFlow(rv_graph)) => rv_result.value = None

\* the normalizer ran on a graph that has forward flows only
C7_Witness ==
    /\ RevDone
    /\ NoReversedFlow(rv_graph)
    /\ \E c \in 1..Len(ConnsOf(rv_graph)) :
          Len(FlowSeq(ConnsOf(rv_graph)[c], "data")) = 2

----------------------------------------------------------------------------
(* Claims about the subgraph flattener, checked under SpecFlat *)

FlatOk == fl_result.result = "ok"

OuterConns ==
    IF fl_graph.connections = None THEN <<>> ELSE Unwrap(fl_graph.connections)

OutConns ==
    IF fl_result.value.connections = None THEN <<>>
    ELSE Unwrap(fl_result.value.connections)

\* the graph the loader returns for the outer node at position k
InnerOf(k) == fl_loader[Unwrap(fl_graph.nodes[k].source_uri)].value

InnerConns(k) ==
    IF fl_graph.nodes[k].type_ # "subgraph" \/ InnerOf(k).connections = None
    THEN <<>>
    ELSE Unwrap(InnerOf(k).connections)

RECURSIVE InternalBefore(_)
\* number of connections contributed by the subgraphs of nodes 1..k-1
InternalBefore(k) ==
    IF k <= 1 THEN 0 ELSE InternalBefore(k - 1) + Len(InnerConns(k - 1))

NumInternal == InternalBefore(Len(fl_graph.nodes) + 1)

RECURSIVE NodesBefore(_)
\* number of flattened nodes contributed by nodes 1..k-1
NodesBefore(k) ==
    IF k <= 1 THEN 0
    ELSE NodesBefore(k - 1)
         + (IF fl_graph.nodes[k - 1].type_ = "subgraph"
            THEN Len(InnerOf(k - 1).nodes) ELSE 1)

\* the flattened names S_E of the extensions E that subgraph S exposes for
\* (msg_type, dir, name)
ExposedAs(S, msg_type, dir, name) ==
    LET ks == { k \in 1..Len(fl_graph.nodes) :
                  /\ fl_graph.nodes[k].type_ = "subgraph"
                  /\ fl_graph.nodes[k].name = S }
        em(k) == IF InnerOf(k).exposed_messages = None THEN <<>>
                 ELSE Unwrap(InnerOf(k).exposed_messages)
    IN UNION { { Some(S \o <<"_">> \o Unwrap(em(k)[i].extension)) :
                   i \in { j \in 1..Len(em(k)) :
                             /\ em(k)[j].msg_type = <<msg_type, dir>>
                             /\ em(k)[j].name = name
                             /\ IsSome(em(k)[j].extension) } } :
               k \in ks }

\* every subgraph destination of outer connection c is resolved through the
\* In variant of its flow's category and name
DestinationsResolved(c) ==
    \A t \in MsgTypes :
       IsSome(FlowsOf(OuterConns[c], t)) =>
          \A f \in 1..Len(Unwrap(FlowsOf(OuterConns[c], t))) :
             LET flow == Unwrap(FlowsOf(OuterConns[c], t))[f]
                 out == Unwrap(FlowsOf(OutConns[NumInternal + c], t))[f]
             IN \A d \in 1..Len(flow.dest) :
                   IsSome(flow.dest[d].loc.subgraph) =>
                      /\ out.dest[d].loc.subgraph = None
                      /\ out.dest[d].loc.extension \in
                            ExposedAs(Unwrap(flow.dest[d].loc.subgraph), t,
                                      "in", flow.name)

\* C8 (subgraph resolution), as stated: when flatten returns Ok, a connection
\* origin or destination of the outer graph with loc.subgraph = S has, in the
\* result, loc.subgraph cleared and loc.extension = S_E, E being the
\* extension of S's exposed message of the flow's name and category (Out for
\* an origin, In for a destination); for an origin this holds for every flow
\* of the connection, in every category.
C8_SubgraphResolution ==
    FlatOk =>
       \A c \in 1..Len(OuterConns) :
          /\ IsSome(OuterConns[c].loc.subgraph) =>
                /\ OutConns[NumInternal + c].loc.subgraph = None
                /\ \A t \in MsgTypes :
                      IsSome(FlowsOf(OuterConns[c], t)) =>
                         \A f \in 1..Len(Unwrap(FlowsOf(OuterConns[c], t))) :
                            OutConns[NumInternal + c].loc.extension \in
                               ExposedAs(Unwrap(OuterConns[c].loc.subgraph), t,
                                         "out",
                                         Unwrap(FlowsOf(OuterConns[c], t))[f].name)
          /\ DestinationsResolved(c)

\* the categories of outer connection c that hold at least one flow, as
\* positions in the order cmd, data, audio_frame, video_frame
NonEmptyCategories(c) ==
    { i \in 1..Len(MsgTypeOrder) :
        /\ IsSome(FlowsOf(OuterConns[c], MsgTypeOrder[i]))
        /\ Unwrap(FlowsOf(OuterConns[c], MsgTypeOrder[i])) # <<>> }

\* C8 amended: as C8, except that an origin is resolved through one flow
\* only: the first flow of the last category, in the order cmd, data,
\* audio_frame, video_frame, that holds a flow.
C8_FirstFlowOfLastCategory ==
    FlatOk =>
       \A c \in 1..Len(OuterConns) :
          /\ IsSome(OuterConns[c].loc.subgraph) =>
                /\ OutConns[NumInternal + c].loc.subgraph = None
                /\ NonEmptyCategories(c) # {} =>
                      LET i == CHOOSE j \in NonEmptyCategories(c) :
                                  \A k \in NonEmptyCategories(c) : k <= j
                          t == MsgTypeOrder[i]
                      IN OutConns[NumInternal + c].loc.extension \in
                            ExposedAs(Unwrap(OuterConns[c].loc.subgraph), t,
                                      "out",
                                      Unwrap(FlowsOf(OuterConns[c], t))[1].name)
          /\ DestinationsResolved(c)

\* flatten succeeded on a connection whose origin is a subgraph, with flows
\* of different names in two categories and a subgraph destination
C8_Witness ==
    /\ FlatOk
    /\ \E c \in 1..Len(OuterConns) :
          /\ IsSome(OuterConns[c].loc.subgraph)
          /\ \E i, j \in NonEmptyCategories(c) :
                /\ i < j
                /\ Unwrap(FlowsOf(OuterConns[c], MsgTypeOrder[i]))[1].name
                      # Unwrap(FlowsOf(OuterConns[c], MsgTypeOrder[j]))[1].name
                /\ \E d \in 1..Len(Unwrap(FlowsOf(OuterConns[c],
                                                   MsgTypeOrder[i]))[1].dest) :
                      IsSome(Unwrap(FlowsOf(OuterConns[c], MsgTypeOrder[i]))[1]
                                .dest[d].loc.subgraph)

\* an extension name is flattened: it has no ':' unless its prefix is "ten"
FlattenedName(extension) ==
    \/ extension = None
    \/ \A i \in 1..Len(Unwrap(extension)) : Unwrap(extension)[i] # ":"
    \/ Unwrap(extension)[1] = "ten" /\ Unwrap(extension)[2] = ":"

\* C9 (post-flatten shape): when flatten returns Ok, the result has no
\* subgraph node, no connection origin or destination with loc.subgraph set,
\* and no extension name containing ':' with a prefix other than "ten",
\* whether the connection came from the outer graph or a loaded subgraph.
C9_PostFlattenShape ==
    FlatOk =>
       /\ \A k \in 1..Len(fl_result.value.nodes) :
             fl_result.value.nodes[k].type_ = "extension"
       /\ \A c \in 1..Len(OutConns) :
             /\ OutConns[c].loc.subgraph = None
             /\ FlattenedName(OutConns[c].loc.extension)
             /\ \A t \in MsgTypes :
                   IsSome(FlowsOf(OutConns[c], t)) =>
                      \A f \in 1..Len(Unwrap(FlowsOf(OutConns[c], t))) :
                         \A d \in 1..Len(Unwrap(FlowsOf(OutConns[c], t))[f].dest) :
                            LET loc == Unwrap(FlowsOf(OutConns[c], t))[f]
                                          .dest[d].loc
                            IN /\ loc.subgraph = None
                               /\ FlattenedName(loc.extension)

\* out is the connection inner of the subgraph named N, with the origin's and
\* every destination's extension name prefixed by N_
PrefixedCopy(inner, out, N) ==
    /\ out.loc.app = inner.loc.app
    /\ IsSome(inner.loc.extension) =>
          out.loc.extension = Some(N \o <<"_">> \o Unwrap(inner.loc.extension))
    /\ \A t \in MsgTypes :
          /\ IsSome(FlowsOf(out, t)) = IsSome(FlowsOf(inner, t))
          /\ IsSome(FlowsOf(inner, t)) =>
                /\ Len(Unwrap(FlowsOf(out, t))) = Len(Unwrap(FlowsOf(inner, t)))
                /\ \A f \in 1..Len(Unwrap(FlowsOf(inner, t))) :
                      LET fi == Unwrap(FlowsOf(inner, t))[f]
                          fo == Unwrap(FlowsOf(out, t))[f]
                      IN /\ fo.name = fi.name
                         /\ Len(fo.dest) = Len(fi.dest)
                         /\ \A d \in 1..Len(fi.dest) :
                               IsSome(fi.dest[d].loc.extension) =>
                                  fo.dest[d].loc.extension =
                                     Some(N \o <<"_">>
                                            \o Unwrap(fi.dest[d].loc.extension))

\* out is the outer connection conn: the same flows, in the same categories,
\* with the same number of destinations
SameFlows(conn, out) ==
    \A t \in MsgTypes :
       /\ IsSome(FlowsOf(out, t)) = IsSome(FlowsOf(conn, t))
       /\ IsSome(FlowsOf(conn, t)) =>
             /\ Len(Unwrap(FlowsOf(out, t))) = Len(Unwrap(FlowsOf(conn, t)))
             /\ \A f \in 1..Len(Unwrap(FlowsOf(conn, t))) :
                   /\ Unwrap(FlowsOf(out, t))[f].name
                         = Unwrap(FlowsOf(conn, t))[f].name
                   /\ Len(Unwrap(FlowsOf(out, t))[f].dest)
                         = Len(Unwrap(FlowsOf(conn, t))[f].dest)

\* C10 (flatten inlining): when flatten returns Ok, every node E of the
\* subgraph loaded for a subgraph node N appears as an extension node named
\* N_E with E's addon; the result's nodes are exactly the outer extension
\* nodes and these, so their number is the number of outer extension nodes
\* plus the sizes of the loaded subgraphs; the result's connections are
\* exactly the loaded subgraphs' internal connections, origin and
\* destination extension names prefixed by N_, and the outer graph's own.
C10_FlattenInlining ==
    FlatOk =>
       /\ Len(fl_result.value.nodes) = NodesBefore(Len(fl_graph.nodes) + 1)
       /\ \A k \in 1..Len(fl_graph.nodes) :
             IF fl_graph.nodes[k].type_ = "extension"
             THEN fl_result.value.nodes[NodesBefore(k) + 1] = fl_graph.nodes[k]
             ELSE \A e \in 1..Len(InnerOf(k).nodes) :
                     LET n == fl_result.value.nodes[NodesBefore(k) + e]
                     IN /\ n.type_ = "extension"
                        /\ n.name = fl_graph.nodes[k].name \o <<"_">>
                                       \o InnerOf(k).nodes[e].name
                        /\ n.addon = InnerOf(k).nodes[e].addon
       /\ Len(OutConns) = NumInternal + Len(OuterConns)
       /\ \A k \in 1..Len(fl_graph.nodes) :
             \A i \in 1..Len(InnerConns(k)) :
                PrefixedCopy(InnerConns(k)[i], OutConns[InternalBefore(k) + i],
                             fl_graph.nodes[k].name)
       /\ \A c \in 1..Len(OuterConns) :
             SameFlows(OuterConns[c], OutConns[NumInternal + c])

\* flatten succeeded on a graph with two subgraph nodes, one of them with an
\* internal connection, and a connection of its own
C10_Witness ==
    /\ FlatOk
    /\ \E j, k \in 1..Len(fl_graph.nodes) :
          /\ j # k
          /\ fl_graph.nodes[j].type_ = "subgraph"
          /\ fl_graph.nodes[k].type_ = "subgraph"
    /\ NumInternal >= 1
    /\ \E c \in 1..Len(OuterConns) : IsSome(OuterConns[c].cmd)

\* C11 (idempotence of flatten): when flatten succeeds on a graph whose
\* subgraphs hold no further subgraphs, flattening the result again, with
\* any loader, succeeds and returns a graph equal to the first result.
C11_Idempotence ==
    fl_again # FlatPending => fl_again = fl_result

\* node k of the outer graph makes flatten return an error while the nodes
\* are processed
Offends(k) ==
    /\ fl_graph.nodes[k].type_ = "subgraph"
    /\ \/ fl_graph.nodes[k].source_uri = None
       \/ fl_loader[Unwrap(fl_graph.nodes[k].source_uri)].result = "err"
       \/ \E e \in 1..Len(InnerOf(k).nodes) :
             InnerOf(k).nodes[e].type_ # "extension"

\* the source_uris of the subgraph nodes among nodes 1..k
UrisUpTo(k) ==
    LET idx == { j \in 1..k : fl_graph.nodes[j].type_ = "subgraph" }
        Nth(n) == CHOOSE j \in idx : Cardinality({ i \in idx : i <= j }) = n
    IN [n \in 1..Cardinality(idx) |-> Unwrap(fl_graph.nodes[Nth(n)].source_uri)]

\* C12 (nested subgraphs rejected): at the first node where flatten stops,
\* a graph returned by the loader that holds a node that is not an extension
\* makes flatten return an error containing "Nested subgraphs are not
\* supported" and no graph; a subgraph node without source_uri makes it
\* return an error containing "must have source_uri", the loader not being
\* called for that node.
C12_NestedRejected ==
    fl_result # FlatPending =>
       \A k \in 1..Len(fl_graph.nodes) :
          (Offends(k) /\ \A j \in 1..(k - 1) : ~Offends(j)) =>
             /\ fl_graph.nodes[k].source_uri = None =>
                   /\ fl_result = [result |-> "err",
                                   msg |-> "must have source_uri"]
                   /\ fl_calls = UrisUpTo(k - 1)
             /\ (/\ fl_graph.nodes[k].source_uri # None
                 /\ fl_loader[Unwrap(fl_graph.nodes[k].source_uri)].result = "ok")
                   => /\ fl_result =
                            [result |-> "err",
                             msg |-> "Nested subgraphs are not supported"]
                      /\ fl_calls = UrisUpTo(k)

\* flatten stopped at a nested subgraph loaded for the second subgraph node
C12_Witness ==
    /\ fl_result # FlatPending
    /\ fl_result.result = "err"
    /\ fl_result.msg = "Nested subgraphs are not supported"
    /\ Len(fl_calls) = 2

----------------------------------------------------------------------------
(* Claims about the subgraph reference check, checked under SpecRefs *)

\* the locations of the graph: every connection origin and every
\* destination of every flow in every category
RefLocations ==
    IF rf_graph.connections = None THEN {}
    ELSE LET conns == Unwrap(rf_graph.connections)
         IN { conns[c].loc : c \in 1..Len(conns) }
            \cup UNION { UNION { UNION { { Unwrap(FlowsOf(conns[c], t))[f].dest[d].loc :
                                            d \in 1..Len(Unwrap(FlowsOf(conns[c], t))[f].dest) } :
                                         f \in 1..Len(Unwrap(FlowsOf(conns[c], t))) } :
                                 t \in { u \in MsgTypes : IsSome(FlowsOf(conns[c], u)) } } :
                         c \in 1..Len(conns) }

\* name is the name of a subgraph node declared in nodes
DeclaredSubgraph(name) ==
    \E k \in 1..Len(rf_graph.nodes) :
       /\ rf_graph.nodes[k].type_ = "subgraph"
       /\ rf_graph.nodes[k].name = name

\* the references of a location resolve: a set loc.subgraph names a declared
\* subgraph node, and so does the prefix, other than "ten", of an extension
\* name of the form prefix:ident
ReferencesResolve(loc) ==
    /\ IsSome(loc.subgraph) => DeclaredSubgraph(Unwrap(loc.subgraph))
    /\ (/\ IsSome(loc.extension)
        /\ \E i \in 1..Len(Unwrap(loc.extension)) : Unwrap(loc.extension)[i] = ":"
        /\ Unwrap(loc.extension)[1] # "ten")
          => \E i \in 1..Len(Unwrap(loc.extension)) :
                /\ Unwrap(loc.extension)[i] = ":"
                /\ \A j \in 1..(i - 1) : Unwrap(loc.extension)[j] # ":"
                /\ DeclaredSubgraph(SubSeq(Unwrap(loc.extension), 1, i - 1))

\* C13 (subgraph-reference validation): check_subgraph_references_exist
\* returns Ok if and only if the references of every connection origin and
\* of every destination resolve to subgraph nodes declared in nodes; names
\* with prefix "ten" are never rejected; single-app and multi-app graphs
\* alike.
C13_ReferenceValidation ==
    rf_result # RefsPending =>
       (rf_result.result = "ok" <=> \A loc \in RefLocations : ReferencesResolve(loc))

----------------------------------------------------------------------------
(* Claims about the node validation, checked under SpecNode *)

\* C14 (localhost ban): GraphNode::validate_and_complete returns an error
\* for an extension node whose app is the literal "localhost", with the
\* single-app-mode message when the declaration state is a single-app graph
\* and the multi-app-mode message otherwise; it returns Ok for an extension
\* node with no app or another app and for a subgraph node; the node is
\* never modified.
C14_LocalhostBan ==
    [][nv_result' # nv_result =>
          /\ nv_node' = nv_node
          /\ IF nv_node.type_ = "extension" /\ nv_node.app = <<"localhost">>
             THEN /\ nv_result'.result = "err"
                  /\ nv_result'.msg =
                        IF nv_state \in {"NoneDeclared", "UniformDeclared"}
                        THEN "ERR_MSG_GRAPH_LOCALHOST_FORBIDDEN_IN_SINGLE_APP_MODE"
                        ELSE "ERR_MSG_GRAPH_LOCALHOST_FORBIDDEN_IN_MULTI_APP_MODE"
             ELSE nv_result' = [result |-> "ok"]]_vars

\* an extension node with app "localhost" was rejected with the multi-app
\* message
C14_Witness ==
    /\ nv_node.type_ = "extension"
    /\ nv_node.app = <<"localhost">>
    /\ nv_state = "MixedDeclared"
    /\ nv_result.result = "err"
    /\ nv_result.msg = "ERR_MSG_GRAPH_LOCALHOST_FORBIDDEN_IN_MULTI_APP_MODE"

----------------------------------------------------------------------------
(* Claims about the URI resolver, checked under SpecPath *)

\* import_uri is a URL: it parses as one and is not an absolute local path
IsUrl(s) == ~is_absolute(s) /\ Url_parse(s).ok

\* C16 (URI resolver rejections): get_real_path_from_import_uri returns an
\* error, and no resolved location, when import_uri is an absolute local
\* path, when it parses as a URL whose scheme is not http, https or file, and
\* when it is a relative path and base_dir is empty; for an http, https or
\* file URL it returns that URL, whatever base_dir is.
C16_ResolverRejections ==
    up_result # PathPending =>
        /\ is_absolute(up_import_uri) => up_result.result = "err"
        /\ ( /\ Url_parse(up_import_uri).ok
             /\ Url_parse(up_import_uri).scheme \notin {"http", "https", "file"} )
           => up_result.result = "err"
        /\ (~is_absolute(up_import_uri) /\ ~Url_parse(up_import_uri).ok /\ up_base_dir = <<>>)
           => up_result.result = "err"
        /\ ( /\ IsUrl(up_import_uri)
             /\ Url_parse(up_import_uri).scheme \in {"http", "https", "file"} )
           => up_result = [result |-> "ok",
                           value |-> Url_to_string(Url_parse(up_import_uri))]

\* an http, https or file URL was resolved with no base_dir at all
C16_Witness ==
    /\ up_result.result = "ok"
    /\ IsUrl(up_import_uri)
    /\ up_base_dir = <<>>

----------------------------------------------------------------------------
(* Claims about the graph info, checked under SpecInfo *)

\* one of nodes, connections, exposed_messages, exposed_properties holds an element
HasGraphFields(g) ==
    \/ g.nodes # <<>>
    \/ g.connections \notin {None, Some(<<>>)}
    \/ g.exposed_messages \notin {None, Some(<<>>)}
    \/ g.exposed_properties \notin {None, Some(<<>>)}

\* C15 (import_uri exclusivity): when import_uri is set and any of nodes,
\* connections, exposed_messages or exposed_properties is non-empty, the call
\* returns an error before any load is attempted and leaves the GraphInfo
\* unchanged; when import_uri is set and all of them are empty or absent,
\* the graph has been replaced by the one loaded from import_uri when
\* validation runs.
C15_ImportUriExclusivity ==
    (gi_call # GraphInfoPending /\ gi_call.before.import_uri # None) =>
        IF HasGraphFields(gi_call.before.graph)
        THEN /\ gi_call.result = "err"
             /\ gi_call.loads = <<>>
             /\ gi_call.validated = None
             /\ gi_info = gi_call.before
        ELSE gi_call.validated # None =>
                /\ Len(gi_call.loads) = 1
                /\ gi_env.read.result = "ok"
                /\ gi_call.validated = Some(gi_env.read.value)
                /\ (gi_call.result = "ok" => gi_info.graph = gi_env.read.value)

\* a call was rejected on a GraphInfo that has an import_uri, a base
\* directory, a readable document and a non-empty graph field
C15_Witness ==
    /\ gi_call # GraphInfoPending
    /\ gi_call.before.import_uri = Some(<<"a">>)
    /\ gi_call.before.app_base_dir # None
    /\ HasGraphFields(gi_call.before.graph)
    /\ gi_env.read.result = "ok"
    /\ gi_call.result = "err"

----------------------------------------------------------------------------
(* Claims about interface flattening, checked under SpecIface / FairIface *)

\* the import graph of the documents: the locations the interfaces of an
\* api resolve to
ImportTargets(api) ==
    IF ~has_interfaces(api) THEN {}
    ELSE { RealPaths[i].value : i \in Range(Unwrap(api.interface)) }

DocumentImports(p) ==
    IF p \in DOMAIN if_docs /\ if_docs[p] # None
    THEN ImportTargets(with_base_dir(Unwrap(if_docs[p]), Path_parent(p)))
    ELSE {}

RECURSIVE ReachableFrom(_, _)
ReachableFrom(S, n) ==
    IF n = 0 THEN S
    ELSE ReachableFrom(S \cup UNION { DocumentImports(p) : p \in S }, n - 1)

NumDocs == Cardinality(DOMAIN if_docs)

ReachableDocs == ReachableFrom(ImportTargets(if_api), NumDocs)

\* a document reachable from the manifest's api imports itself, directly or not
CycleReachable ==
    \E p \in ReachableDocs : p \in ReachableFrom(DocumentImports(p), NumDocs)

\* every import reachable from the manifest's api names a document of the set
AllDocumentsExist ==
    \A p \in ReachableDocs : p \in DOMAIN if_docs /\ if_docs[p] # None

NoLocationReadTwice ==
    \A i, j \in 1..Len(if_loads) : if_loads[i] = if_loads[j] => i = j

RecursionBounded == Len(if_stack) <= NumDocs + 1

CircularError ==
    /\ if_pc = "done"
    /\ if_result = [result |-> "err", msg |-> "Circular reference detected"]

\* C17 (circular interface references terminate with an error): when the
\* import graph of the documents has a cycle reachable from the manifest's
\* api, flatten with load_interface finishes and returns the error "Circular
\* reference detected"; no location is ever read twice, and the depth of the
\* recursion never exceeds the number of documents.
C17_CircularTerminates ==
    /\ [](NoLocationReadTwice /\ RecursionBounded)
    /\ (CycleReachable /\ AllDocumentsExist) ~> CircularError

\* a cycle through both documents was detected after reading each once
C17_Witness ==
    /\ CircularError
    /\ CycleReachable /\ AllDocumentsExist
    /\ Len(if_loads) = 2
    /\ Len(if_stack) >= 2

\* the outermost flatten_internal returned Ok: every interface, transitively,
\* was loaded
AllInterfacesLoaded ==
    /\ if_pc = "done"
    /\ has_interfaces(if_api)
    /\ if_stack = <<>>

\* C18 (result contract of ManifestApi::flatten): Ok(None) when the api has
\* no interface entries (absent or empty list); Ok(Some(flattened api)) when
\* it has interface entries and every referenced interface, transitively, was
\* loaded successfully.
C18_ResultContract ==
    if_pc = "done" =>
        /\ ~has_interfaces(if_api) => if_result = [result |-> "ok", value |-> None]
        /\ AllInterfacesLoaded => (if_result.result = "ok" /\ if_result.value # None)

----------------------------------------------------------------------------
(* Claims about the file watcher, checked under FairWatch and FairWatchReceiving *)

TaskTerminated == fw_task.pc = "done"

\* a call of stop() on a stream whose sender was already taken
SecondStop ==
    /\ fw_stream.stop_sent
    /\ fw_stream'.stops = fw_stream.stops + 1

\* C19 (the file watcher stops on request): after stop() or after the stream
\* is dropped, watch_file_task eventually terminates, after which nothing is
\* sent, whatever the task, the file and the caller do in between, also when
\* the content channel is full and the caller does not receive; a second
\* stop() changes nothing.
C19_StopsOnRequest ==
    /\ fw_stream.stop_sent ~> TaskTerminated
    /\ [][SecondStop => /\ fw_stream' = [fw_stream EXCEPT !.stops = @ + 1]
                        /\ UNCHANGED <<fw_fs, fw_task, fw_chan>>]_vars

\* the watcher stays at end of file and the caller does not stop it
StaysIdle == fw_task.eof_reached /\ ~fw_stream.stop_sent

\* file.read returned bytes
ReadNewBytes == fw_task'.last_position > fw_task.last_position

\* C20 (the file watcher ends on idle timeout): when, from some moment on,
\* the watcher is at end of file with no new content and the caller does not
\* stop it, the task eventually ends (and with it the stream), whether the
\* file is still there, was rotated or is unchanged; reading new bytes
\* clears the time of the end of file, so that the idle period starts anew.
C20_IdleTimeout ==
    /\ (<>[]StaysIdle) => <>TaskTerminated
    /\ [][ReadNewBytes => (fw_task'.eof_time = None /\ ~fw_task'.eof_reached)]_vars

----------------------------------------------------------------------------
(* Claims about the uniqueness kept by the graph mutator, checked under SpecAdd *)

\* the flow collections that are present in the connections of g
FlowCollections(g) ==
    IF g.connections = None THEN {}
    ELSE { Unwrap(FlowsOf(ct[1], ct[2])) :
             ct \in { x \in Range(Unwrap(g.connections)) \X MsgTypes :
                        IsSome(FlowsOf(x[1], x[2])) } }

\* no two flows of one collection hold the same value in the field name
FlowNamesUnique(g) ==
    \A fl \in FlowCollections(g) :
        \A i, j \in 1..Len(fl) : i # j => fl[i].name # fl[j].name

\* no flow lists the same destination loc twice
DestinationsUnique(g) ==
    \A fl \in FlowCollections(g) :
        \A i \in 1..Len(fl) : \A d, e \in 1..Len(fl[i].dest) :
            d # e => fl[i].dest[d].loc # fl[i].dest[e].loc

\* no two connections have the same origin
OriginsUnique(g) ==
    g.connections = None
    \/ \A c, d \in 1..Len(Unwrap(g.connections)) :
          c # d => Unwrap(g.connections)[c].loc # Unwrap(g.connections)[d].loc

\* C22 (uniqueness kept): from a graph in which no two flows of a collection
\* share a name, no flow lists a destination loc twice and no two
\* connections share an origin, every call of graph_add_connection,
\* successful or failed, leaves a graph with the same three properties.
C22_UniquenessKept ==
    [][ ( /\ calls' = calls + 1
          /\ FlowNamesUnique(graph)
          /\ DestinationsUnique(graph)
          /\ OriginsUnique(graph) )
        => ( /\ FlowNamesUnique(graph')
             /\ DestinationsUnique(graph')
             /\ OriginsUnique(graph') ) ]_vars

\* C22 witness: a second successful call on an origin that already has a
\* connection and a flow of the requested name: the flow now has two
\* destinations and the graph still has one connection for the origin
C22_Witness ==
    /\ calls = 2
    /\ last.result = "ok"
    /\ IsSome(last.before.connections)
    /\ \E c \in 1..Len(Unwrap(last.before.connections)) :
          Unwrap(last.before.connections)[c].loc = last.src
    /\ \E fl \in FlowCollections(graph) :
          \E i \in 1..Len(fl) : Len(fl[i].dest) = 2
    /\ FlowNamesUnique(last.before)
    /\ DestinationsUnique(last.before)
    /\ OriginsUnique(last.before)

----------------------------------------------------------------------------
(* Claims about the metrics, checked under SpecMetric *)

\* C21 (gauge_set sets): after ten_metric_gauge_set(handle, v, labels) on a
\* valid handle the value recorded for the metric and the label set is v,
\* whatever gauge_set, gauge_add, gauge_inc, gauge_dec and gauge_sub calls
\* came before; with a null handle the call changes nothing.
C21_GaugeSetSets ==
    mt_last.op = "gauge_set"
    => IF mt_last.metric_ptr = None
       THEN mt_gauge = mt_last.before
       ELSE mt_gauge[mt_last.attributes] = mt_last.value

----------------------------------------------------------------------------
(* Claims about the output of the normalizer, checked under SpecRev and *)
(* SpecRevMerge *)

\* the flows without a source in collection t of a connection
SourcelessFlows(conn, t) ==
    IF IsSome(FlowsOf(conn, t))
    THEN SelectSeq(Unwrap(FlowsOf(conn, t)), LAMBDA flow : flow.source = <<>>)
    ELSE <<>>

\* the flows with a source in collection t of a connection
SourceFlows(conn, t) ==
    IF IsSome(FlowsOf(conn, t))
    THEN SelectSeq(Unwrap(FlowsOf(conn, t)), LAMBDA flow : flow.source # <<>>)
    ELSE <<>>

RECURSIVE SourcesOf(_, _)
\* the origins named as a source by flows[i..], in the order of the flows
SourcesOf(flows, i) ==
    IF i > Len(flows) THEN <<>>
    ELSE [k \in 1..Len(flows[i].source) |-> flows[i].source[k].loc]
         \o SourcesOf(flows, i + 1)

\* the sources of a connection in the order they are visited
VisitedSources(conn) ==
    SourcesOf(SourceFlows(conn, "cmd"), 1)
    \o SourcesOf(SourceFlows(conn, "data"), 1)
    \o SourcesOf(SourceFlows(conn, "audio_frame"), 1)
    \o SourcesOf(SourceFlows(conn, "video_frame"), 1)

RECURSIVE KeptOrigins(_, _)
\* the origins of the connections[i..] that keep a flow, in input order
KeptOrigins(connections, i) ==
    IF i > Len(connections) THEN <<>>
    ELSE (IF \E t \in MsgTypes : SourcelessFlows(connections[i], t) # <<>>
          THEN <<connections[i].loc>> ELSE <<>>)
         \o KeptOrigins(connections, i + 1)

RECURSIVE EmittedOrigins(_, _)
\* the origins of the forward connections, in the order of the visit
EmittedOrigins(connections, i) ==
    IF i > Len(connections) THEN <<>>
    ELSE VisitedSources(connections[i]) \o EmittedOrigins(connections, i + 1)

RECURSIVE FirstOccurrences(_, _)
\* seq[i..] without the elements that occur earlier in seq
FirstOccurrences(seq, i) ==
    IF i > Len(seq) THEN <<>>
    ELSE (IF \E j \in 1..(i - 1) : seq[j] = seq[i] THEN <<>> ELSE <<seq[i]>>)
         \o FirstOccurrences(seq, i + 1)

\* the origins of the output as the ordering rule gives them: the kept
\* connections in input order, then the forward connections as visited
OrderedOrigins(g) ==
    FirstOccurrences(KeptOrigins(Unwrap(g.connections), 1)
                     \o EmittedOrigins(Unwrap(g.connections), 1), 1)

RECURSIVE IsSubsequence(_, _)
\* a can be obtained from b by removing elements
IsSubsequence(a, b) ==
    IF a = <<>> THEN TRUE
    ELSE IF b = <<>> THEN FALSE
    ELSE IF a[1] = b[1] THEN IsSubsequence(Tail(a), Tail(b))
    ELSE IsSubsequence(a, Tail(b))

\* the flows of collection t of the output connection at origin loc
OutputFlows(out, loc, t) ==
    LET idx == FirstIndex({ k \in 1..Len(Unwrap(out.connections)) :
                              Unwrap(out.connections)[k].loc = loc })
    IN IF idx = 0 THEN <<>>
       ELSE IF IsSome(FlowsOf(Unwrap(out.connections)[idx], t))
       THEN Unwrap(FlowsOf(Unwrap(out.connections)[idx], t))
       ELSE <<>>

\* the non-reversed flows of every input connection are found, in their
\* order, in the output connection of the same origin
ForwardFlowOrderKept(g, out) ==
    \A c \in 1..Len(Unwrap(g.connections)) : \A t \in MsgTypes :
        IsSubsequence(SourcelessFlows(Unwrap(g.connections)[c], t),
                      OutputFlows(out, Unwrap(g.connections)[c].loc, t))

Converted == rv_result # RevPending /\ IsSome(rv_result.value)

\* C23 (output ordering): in the graph returned by
\* convert_reversed_connections_to_forward_connections the non-reversed flows
\* of each connection keep their relative order, and the connections kept
\* from the input come first, in input order, followed by the forward
\* connections in the order their sources were visited.
C23_OutputOrdering ==
    Converted
    => /\ ForwardFlowOrderKept(rv_graph, Unwrap(rv_result.value))
       /\ [i \in 1..Len(Unwrap(Unwrap(rv_result.value).connections)) |->
             Unwrap(Unwrap(rv_result.value).connections)[i].loc]
          = OrderedOrigins(rv_graph)

\* how many times flow x occurs in the sequence flows
Occurrences(flows, x) == Cardinality({i \in 1..Len(flows) : flows[i] = x})

\* the flow a source of a reversed flow declared at origin loc ends up with
ForwardFlowOf(flow, loc) ==
    [name |-> flow.name,
     dest |-> << [loc |-> loc, msg_conversion |-> None] >>,
     source |-> <<>>]

RECURSIVE ForwardFlowsFor(_, _, _, _)
\* the forward flows that flows[i..], declared at origin conn_loc, give the
\* source loc: one for each time a flow names loc as a source
ForwardFlowsFor(flows, conn_loc, loc, i) ==
    IF i > Len(flows) THEN <<>>
    ELSE [k \in 1..Len(SelectSeq(flows[i].source, LAMBDA s : s.loc = loc)) |->
             ForwardFlowOf(flows[i], conn_loc)]
         \o ForwardFlowsFor(flows, conn_loc, loc, i + 1)

RECURSIVE ExpectedFlows(_, _, _, _)
\* the flows of collection t that the kept connections of origin loc and the
\* forward connections of source loc hold, over connections[i..]
ExpectedFlows(connections, loc, t, i) ==
    IF i > Len(connections) THEN <<>>
    ELSE (IF connections[i].loc = loc
          THEN SourcelessFlows(connections[i], t) ELSE <<>>)
         \o ForwardFlowsFor(SourceFlows(connections[i], t), connections[i].loc,
                            loc, 1)
         \o ExpectedFlows(connections, loc, t, i + 1)

\* two sequences hold the same elements the same number of times
SameMultiset(a, b) ==
    /\ Len(a) = Len(b)
    /\ \A x \in Range(a) \cup Range(b) : Occurrences(a, x) = Occurrences(b, x)

\* every origin of a kept or forward connection
AllExpectedOrigins(g) ==
    Range(KeptOrigins(Unwrap(g.connections), 1))
    \cup Range(EmittedOrigins(Unwrap(g.connections), 1))

\* the connections of out are the kept and forward connections of g merged
\* by origin
MergedByOrigin(g, out) ==
    LET conns == Unwrap(out.connections)
    IN /\ \A c, d \in 1..Len(conns) : c # d => conns[c].loc # conns[d].loc
       /\ \A c \in 1..Len(conns) :
             /\ \E t \in MsgTypes : IsSome(FlowsOf(conns[c], t))
             /\ \A t \in MsgTypes : FlowsOf(conns[c], t) # Some(<<>>)
       /\ {conns[c].loc : c \in 1..Len(conns)} = AllExpectedOrigins(g)
       /\ \A c \in 1..Len(conns) : \A t \in MsgTypes :
             SameMultiset(IF IsSome(FlowsOf(conns[c], t))
                          THEN Unwrap(FlowsOf(conns[c], t)) ELSE <<>>,
                          ExpectedFlows(Unwrap(g.connections), conns[c].loc, t, 1))

NoSources(g) ==
    g.connections = None
    \/ \A c \in 1..Len(Unwrap(g.connections)) : \A t \in MsgTypes :
          SourceFlows(Unwrap(g.connections)[c], t) = <<>>

\* the function applied to out returns Ok(None)
ConvertsToNone(out) ==
    \A order \in IterationOrders(out) :
        convert_reversed_connections_to_forward_connections(out, order)
        = [status |-> "ok", value |-> None]

\* C28 (normalized output): the graph returned by
\* convert_reversed_connections_to_forward_connections holds no flow with a
\* non-empty source list, so the function applied to it returns Ok(None);
\* its nodes, exposed_messages and exposed_properties are those of the
\* input, and the input graph is not modified by the call.
C28_NormalizedOutput ==
    /\ [](Converted
          => /\ NoSources(Unwrap(rv_result.value))
             /\ ConvertsToNone(Unwrap(rv_result.value))
             /\ Unwrap(rv_result.value).nodes = rv_graph.nodes
             /\ Unwrap(rv_result.value).exposed_messages
                = rv_graph.exposed_messages
             /\ Unwrap(rv_result.value).exposed_properties
                = rv_graph.exposed_properties)
    /\ [][rv_graph' = rv_graph]_vars

\* C28 witness: a graph was returned for an input in which one reversed flow
\* also has destinations and another flow has none of either kind of source
C28_Witness ==
    /\ Converted
    /\ \E c \in 1..Len(Unwrap(rv_graph.connections)) : \E t \in MsgTypes :
          /\ \E f \in 1..Len(SourceFlows(Unwrap(rv_graph.connections)[c], t)) :
                SourceFlows(Unwrap(rv_graph.connections)[c], t)[f].dest # <<>>
          /\ SourcelessFlows(Unwrap(rv_graph.connections)[c], t) # <<>>

----------------------------------------------------------------------------
(* Claims about names and properties in the flattened graph, checked under *)
(* SpecFlat *)

\* the extension name is of the form prefix:ident
IsPrefixIdent(extension) ==
    /\ IsSome(extension)
    /\ Len(split_colon(Unwrap(extension))) = 2

\* what the rule for prefix:ident gives: prefix_ident, and ten:ident as it is
ReservedPrefixRule(extension) ==
    IF split_colon(Unwrap(extension))[1] = <<"ten">> THEN extension
    ELSE Some(format_underscore(split_colon(Unwrap(extension))[1],
                                split_colon(Unwrap(extension))[2]))

\* C25 (reserved prefix): when flatten returns Ok, an extension name
\* prefix:ident of an outer connection origin or flow destination is found as
\* prefix_ident in the flattened graph when prefix is not "ten", and every
\* name ten:ident is found unchanged.
C25_ReservedPrefix ==
    FlatOk =>
       \A c \in 1..Len(OuterConns) :
          /\ IsPrefixIdent(OuterConns[c].loc.extension)
                => OutConns[NumInternal + c].loc.extension
                   = ReservedPrefixRule(OuterConns[c].loc.extension)
          /\ \A t \in MsgTypes :
                IsSome(FlowsOf(OuterConns[c], t)) =>
                   \A f \in 1..Len(Unwrap(FlowsOf(OuterConns[c], t))) :
                      \A d \in 1..Len(Unwrap(FlowsOf(OuterConns[c], t))[f].dest) :
                         LET e == Unwrap(FlowsOf(OuterConns[c], t))[f].dest[d]
                                     .loc.extension
                         IN IsPrefixIdent(e)
                            => Unwrap(FlowsOf(OutConns[NumInternal + c], t))[f]
                                  .dest[d].loc.extension
                               = ReservedPrefixRule(e)

\* the property the merge rule gives an inlined extension with property e
\* under a subgraph node with property n
PropertyMergeRule(e, n) ==
    IF n = None THEN e
    ELSE IF e = None THEN n
    ELSE IF Unwrap(e).object /\ Unwrap(n).object
    THEN Some(PropObject(
            [k \in DOMAIN Unwrap(e).fields \cup DOMAIN Unwrap(n).fields |->
                IF k \in DOMAIN Unwrap(n).fields THEN Unwrap(n).fields[k]
                ELSE Unwrap(e).fields[k]]))
    ELSE n

\* C26 (property merge): when flatten returns Ok, the node inlined for
\* extension E of subgraph node N has N.property when E has none, E.property
\* with every top-level key of N.property inserted or overridden when both
\* are JSON objects, N.property when both are present and one is not a JSON
\* object, and E.property when N has none.
C26_PropertyMerge ==
    FlatOk =>
       \A k \in 1..Len(fl_graph.nodes) :
          fl_graph.nodes[k].type_ = "subgraph" =>
             \A e \in 1..Len(InnerOf(k).nodes) :
                fl_result.value.nodes[NodesBefore(k) + e].property
                = PropertyMergeRule(InnerOf(k).nodes[e].property,
                                    fl_graph.nodes[k].property)

----------------------------------------------------------------------------
(* Claims about path normalisation, checked under SpecPath *)

\* the call joined a non-URL base_dir with a relative import_uri
JoinedOnFileSystem ==
    /\ up_result # PathPending
    /\ ~is_absolute(up_import_uri)
    /\ ~Url_parse(up_import_uri).ok
    /\ up_base_dir # <<>>
    /\ ~Url_parse(up_base_dir).ok

RECURSIVE NormalisationRule(_, _, _, _)
\* the rule for comps[i..] with the names kept so far: "." is removed, ".."
\* removes the preceding normal name, is dropped at the root of an absolute
\* path and is kept in the leading run of ".." of a relative path
NormalisationRule(comps, i, kept, absolute) ==
    IF i > Len(comps) THEN kept
    ELSE CASE comps[i].kind \in {"RootDir", "CurDir"} ->
                NormalisationRule(comps, i + 1, kept, absolute)
           [] comps[i].kind = "ParentDir" ->
                IF kept # <<>> /\ kept[Len(kept)] # <<"..">>
                THEN NormalisationRule(comps, i + 1,
                                       SubSeq(kept, 1, Len(kept) - 1), absolute)
                ELSE IF absolute
                THEN NormalisationRule(comps, i + 1, kept, absolute)
                ELSE NormalisationRule(comps, i + 1, Append(kept, <<"..">>),
                                       absolute)
           [] OTHER ->
                NormalisationRule(comps, i + 1, Append(kept, comps[i].name),
                                  absolute)

\* the path the rule gives, written as normalize_path_components writes it
NormalisedPath(path) ==
    LET kept == NormalisationRule(Path_components(path), 1, <<>>,
                                  Path_is_absolute(path))
    IN IF Path_is_absolute(path) THEN <<"/">> \o join_slash(kept)
       ELSE IF kept = <<>> THEN <<".">>
       ELSE join_slash(kept)

\* the names of a normalised path hold no "." and no ".." after a normal name
NoDotsLeft(value) ==
    LET names == path_names(value, <<>>)
    IN /\ \A i \in 1..Len(names) : names[i] = <<".">> => value = <<".">>
       /\ \A i, j \in 1..Len(names) :
             (i < j /\ names[i] # <<"..">>) => names[j] # <<"..">>

\* C27 (path normalisation): for the components obtained by joining a
\* non-URL base_dir with a relative import_uri, normalize_path_components
\* removes every ".", makes each ".." remove the preceding normal component,
\* drops a ".." at the root of an absolute path and keeps every ".." of a
\* leading run of ".." in a relative path; the result holds no "." and no
\* ".." after a normal component.
C27_PathNormalisation ==
    JoinedOnFileSystem
    => /\ up_result.result = "ok"
       /\ up_result.value = NormalisedPath(Path_join(up_base_dir, up_import_uri))
       /\ NoDotsLeft(up_result.value)

----------------------------------------------------------------------------
(* Claims about the content delivered by the file watcher, checked under *)
(* SpecWatch *)

\* the file at the path is the one watch_file found and no other file was
\* ever created there: it was only appended to
OnlyAppendedTo == fw_fs.created = 1 /\ fw_fs.cur = 1

\* the Ok items of a sequence of items
OkChunks(items) == SelectSeq(items, LAMBDA item : ~item.error)

RECURSIVE TotalLen(_)
\* the number of bytes of a sequence of chunks
TotalLen(chunks) ==
    IF chunks = <<>> THEN 0 ELSE chunks[1].len + TotalLen(Tail(chunks))

\* the chunks, one after the other, are the bytes of file id from its start:
\* each begins where the one before ended, none is empty or longer than the
\* buffer, and together they do not pass the end of the file
IsPrefixOfFile(chunks, id) ==
    /\ \A k \in 1..Len(chunks) :
          /\ chunks[k].file = id
          /\ chunks[k].from = TotalLen(SubSeq(chunks, 1, k - 1))
          /\ chunks[k].len >= 1
          /\ chunks[k].len <= BufferSize
    /\ TotalLen(chunks) <= fw_fs.len[id]

\* the items the task has handed to the channel: those delivered, those
\* queued and the one content_tx.send is called with
HandedToChannel ==
    fw_stream.delivered \o fw_chan
    \o (IF IsSome(fw_task.sending) THEN <<Unwrap(fw_task.sending)>> ELSE <<>>)

----------------------------------------------------------------------------
(* Claim about the circular-reference error, checked under SpecIface *)

\* C30 (the circular-reference error only for real cycles): a load during
\* ManifestApi::flatten fails with "Circular reference detected" only when
\* the import graph reachable from the manifest's api contains a cycle; with
\* an acyclic import graph, also one where two interfaces import the same
\* third interface, no load fails with that error.
C30_CircularOnlyForCycles == CircularError => CycleReachable

====
